---- MODULE Spec2Model ----
(***************************************************************************)
(* Tube-bank correlations of ht/conv_tube_bank.py.                         *)
(*                                                                         *)
(* Every public function is pure: the state is the last call made (the     *)
(* function, its arguments) and the outcome of that call, either a value   *)
(* or the exception that ended it.                                         *)
(*                                                                         *)
(* Numbers.  Correction factors are tabulated to four decimals and are     *)
(* held as integers in units of 1/10000 (0.8942 is 8942, 1.0 is 10000).    *)
(* A row count is a Python number: an int, or a float held in halves       *)
(* (h = 7 is 3.5); the distinction matters because a list accepts only an  *)
(* int as index.  Areas and fractions are exact rationals <<n, d>>, d > 0. *)
(***************************************************************************)
EXTENDS Integers, Sequences, FiniteSets, TLC

VARIABLES fn, args, ret, spl, mod, callers, frames

vars == <<fn, args, ret, spl, mod, callers, frames>>

(***************************************************************************)
(* Bounds of the model.                                                    *)
(***************************************************************************)
\* largest row count drawn (rows above the 20-row convergence are needed)
MaxRows == 21
\* smallest row count drawn is -MinRows (zero and negative counts are needed)
MinRows == 2
\* largest leakage / crossflow area drawn
MaxArea == 3

(***************************************************************************)
(* Outcomes of a call and Python's number and list primitives.             *)
(***************************************************************************)
One == 10000

Value(v) == [kind |-> "value", val |-> v]

\* a returned number kept as the factors of the product that computes it
Product(v) == [kind |-> "value", val |-> v, form |-> "product"]

Raise(e) == [kind |-> e]

ReturnNone == [kind |-> "None"]

NoCall == [kind |-> "nocall"]

\* a Python int n
PyIntNum(n) == [isint |-> TRUE, h |-> 2 * n]

\* a Python float h/2
PyFloatNum(h) == [isint |-> FALSE, h |-> h]

\* int(x): truncation toward zero
PyInt(x) == IF x.h >= 0 THEN x.h \div 2 ELSE -((-x.h) \div 2)

\* list[i] for an int i: negative indices count from the end, anything
\* outside -len..len-1 is an IndexError
PyIndex(list, i) ==
    IF i >= 0 /\ i < Len(list) THEN Value(list[i + 1])
    ELSE IF i < 0 /\ -i <= Len(list) THEN Value(list[Len(list) + i + 1])
    ELSE Raise("IndexError")

\* list[x - k] for a Python number x: a float index is a TypeError
PyIndexNum(list, x, k) ==
    IF x.isint THEN PyIndex(list, (x.h \div 2) - k) ELSE Raise("TypeError")

(***************************************************************************)
(* Exact rationals <<n, d>> with d > 0, in lowest terms.                   *)
(***************************************************************************)
Abs(n) == IF n < 0 THEN -n ELSE n

RECURSIVE GCD(_, _)
GCD(a, b) == IF b = 0 THEN a ELSE GCD(b, a % b)

\* n/d for d # 0
Rat(n, d) ==
    LET g == GCD(Abs(n), Abs(d))
        s == IF d < 0 THEN -1 ELSE 1
    IN  <<(s * n) \div g, Abs(d) \div g>>

RatSub(p, q) == Rat(p[1] * q[2] - q[1] * p[2], p[2] * q[2])

RatAbs(p) == <<Abs(p[1]), p[2]>>

RatGT(p, q) == p[1] * q[2] > q[1] * p[2]

RatLT(p, q) == p[1] * q[2] < q[1] * p[2]


(***************************************************************************)
(* Tube-row correction tables.                                             *)
(***************************************************************************)
Grimson_Nl_aligned ==
    <<6400, 8000, 8700, 9000, 9200, 9400, 9600, 9800, 9900>>

Grimson_Nl_staggered ==
    <<6800, 7500, 8300, 8900, 9200, 9500, 9700, 9800, 9900>>

Zukauskas_Czs_low_Re_staggered ==
    <<8295, 8792, 9151, 9402, 9570, 9677, 9745, 9785, 9808, 9823, 9838, 9855,
      9873, 9891, 9910, 9929, 9948, 9967, 9987>>

Zukauskas_Czs_high_Re_staggered ==
    <<6273, 7689, 8473, 8942, 9254, 9450, 9570, 9652, 9716, 9765, 9803, 9834,
      9862, 9890, 9918, 9943, 9965, 9980, 9986>>

\* 0.9054 entered as 0.9504
Zukauskas_Czs_inline_slip ==
    <<6768, 8089, 8687, 9504, 9303, 9465, 9569, 9647, 9712, 9766, 9811, 9847,
      9877, 9900, 9920, 9937, 9953, 9969, 9986>>

Zukauskas_Czs_inline ==
    <<6768, 8089, 8687, 9054, 9303, 9465, 9569, 9647, 9712, 9766, 9811, 9847,
      9877, 9900, 9920, 9937, 9953, 9969, 9986>>

\* the inline table reaching 1.0 at its last entry, row 9
ESDU_73031_F2_inline_one ==
    <<8479, 8957, 9306, 9551, 9724, 9839, 10000>>

ESDU_73031_F2_inline == <<8479, 8957, 9306, 9551, 9724, 9839, 9902>>

ESDU_73031_F2_staggered == <<8593, 8984, 9268, 9482, 9650, 9777, 9868>>

(***************************************************************************)
(* Zukauskas_tube_row_correction(tube_rows, staggered, Re)                 *)
(***************************************************************************)
\* the row-count test written <= 20: the 20th row is looked up
Zukauskas_tube_row_correction_le20(tube_rows, staggered, Re) ==
    LET n0 == PyInt(tube_rows)
        n  == IF n0 < 1 THEN 1 ELSE n0
    IN  IF staggered
        THEN IF n <= 20
             THEN LET factors == IF Re < 1000
                                 THEN Zukauskas_Czs_low_Re_staggered
                                 ELSE Zukauskas_Czs_high_Re_staggered
                  IN  PyIndex(factors, n - 1)
             ELSE Value(One)
        ELSE IF n <= 20
             THEN PyIndex(Zukauskas_Czs_inline, n - 1)
             ELSE Value(One)

\* the Reynolds test written Re <= 1000
Zukauskas_tube_row_correction_Re_le(tube_rows, staggered, Re) ==
    LET n0 == PyInt(tube_rows)
        n  == IF n0 < 1 THEN 1 ELSE n0
    IN  IF staggered
        THEN IF n <= 19
             THEN LET factors == IF Re <= 1000
                                 THEN Zukauskas_Czs_low_Re_staggered
                                 ELSE Zukauskas_Czs_high_Re_staggered
                  IN  PyIndex(factors, n - 1)
             ELSE Value(One)
        ELSE IF n <= 19
             THEN PyIndex(Zukauskas_Czs_inline, n - 1)
             ELSE Value(One)

\* the clamp to a minimum of one row left out
Zukauskas_tube_row_correction_noclamp(tube_rows, staggered, Re) ==
    LET n == PyInt(tube_rows)
    IN  IF staggered
        THEN IF n <= 19
             THEN LET factors == IF Re < 1000
                                 THEN Zukauskas_Czs_low_Re_staggered
                                 ELSE Zukauskas_Czs_high_Re_staggered
                  IN  PyIndex(factors, n - 1)
             ELSE Value(One)
        ELSE IF n <= 19
             THEN PyIndex(Zukauskas_Czs_inline, n - 1)
             ELSE Value(One)

Zukauskas_tube_row_correction(tube_rows, staggered, Re) ==
    LET n0 == PyInt(tube_rows)
        n  == IF n0 < 1 THEN 1 ELSE n0
    IN  IF staggered
        THEN IF n <= 19
             THEN LET factors == IF Re < 1000
                                 THEN Zukauskas_Czs_low_Re_staggered
                                 ELSE Zukauskas_Czs_high_Re_staggered
                  IN  PyIndex(factors, n - 1)
             ELSE Value(One)
        ELSE IF n <= 19
             THEN PyIndex(Zukauskas_Czs_inline, n - 1)
             ELSE Value(One)

(***************************************************************************)
(* ESDU_tube_row_correction(tube_rows, staggered, Re, method)              *)
(* The row count is compared and used as given; Re is not read.            *)
(***************************************************************************)
\* the convergence test written > 10: the 10th row is looked up
ESDU_tube_row_correction_gt10(tube_rows, staggered, Re, method) ==
    IF method = "Hewitt"
    THEN IF staggered
         THEN IF tube_rows.h <= 2 * 2
              THEN PyIndex(ESDU_73031_F2_staggered, 0)
              ELSE IF tube_rows.h > 2 * 10
              THEN Value(One)
              ELSE PyIndexNum(ESDU_73031_F2_staggered, tube_rows, 3)
         ELSE IF tube_rows.h <= 2 * 2
              THEN PyIndex(ESDU_73031_F2_inline, 0)
              ELSE IF tube_rows.h > 2 * 10
              THEN Value(One)
              ELSE PyIndexNum(ESDU_73031_F2_inline, tube_rows, 3)
    ELSE ReturnNone

\* the table offset written 2
ESDU_tube_row_correction_off2(tube_rows, staggered, Re, method) ==
    IF method = "Hewitt"
    THEN IF staggered
         THEN IF tube_rows.h <= 2 * 2
              THEN PyIndex(ESDU_73031_F2_staggered, 0)
              ELSE IF tube_rows.h >= 2 * 10
              THEN Value(One)
              ELSE PyIndexNum(ESDU_73031_F2_staggered, tube_rows, 2)
         ELSE IF tube_rows.h <= 2 * 2
              THEN PyIndex(ESDU_73031_F2_inline, 0)
              ELSE IF tube_rows.h >= 2 * 10
              THEN Value(One)
              ELSE PyIndexNum(ESDU_73031_F2_inline, tube_rows, 2)
    ELSE ReturnNone

\* the method name not tested
ESDU_tube_row_correction_anymethod(tube_rows, staggered, Re, method) ==
    IF staggered
    THEN IF tube_rows.h <= 2 * 2
         THEN PyIndex(ESDU_73031_F2_staggered, 0)
         ELSE IF tube_rows.h >= 2 * 10
         THEN Value(One)
         ELSE PyIndexNum(ESDU_73031_F2_staggered, tube_rows, 3)
    ELSE IF tube_rows.h <= 2 * 2
         THEN PyIndex(ESDU_73031_F2_inline, 0)
         ELSE IF tube_rows.h >= 2 * 10
         THEN Value(One)
         ELSE PyIndexNum(ESDU_73031_F2_inline, tube_rows, 3)

ESDU_tube_row_correction(tube_rows, staggered, Re, method) ==
    IF method = "Hewitt"
    THEN IF staggered
         THEN IF tube_rows.h <= 2 * 2
              THEN PyIndex(ESDU_73031_F2_staggered, 0)
              ELSE IF tube_rows.h >= 2 * 10
              THEN Value(One)
              ELSE PyIndexNum(ESDU_73031_F2_staggered, tube_rows, 3)
         ELSE IF tube_rows.h <= 2 * 2
              THEN PyIndex(ESDU_73031_F2_inline, 0)
              ELSE IF tube_rows.h >= 2 * 10
              THEN Value(One)
              ELSE PyIndexNum(ESDU_73031_F2_inline, tube_rows, 3)
    ELSE ReturnNone

(***************************************************************************)
(* Evaluation of an external collaborator (spl is the sequence of those a  *)
(* call makes).  The coefficients of an interpolator are fitted by         *)
(* scipy (FITPACK) when the module is loaded and are not computable here:  *)
(* a consultation is recorded as the interpolator, the point and the value *)
(* it gave, the value being any member of a set drawn by the caller.       *)
(***************************************************************************)
Consult(obj, x, y, val) == [obj |-> obj, x |-> x, y |-> y, val |-> val]

\* values a Bell correction surface can give, in 1/10000: below 0, 0,
\* inside (0, 1), exactly 1, above 1
SplineVals == {-500, 0, 5907, One, 10312}

\* values of the Grimison C1 and m surfaces, in 1/1000
GrimisonC1Vals == {290, 518}

GrimisonmVals == {556, 752}

(***************************************************************************)
(* Nu_Grimison_tube_bank(Re, Pr, Do, tube_rows, pitch_parallel,            *)
(* pitch_normal).  C1v and mv are the values of the two surfaces consulted.*)
(* The row factor C2 is the part computed here; the returned product       *)
(* 1.13*Re**m*Pr**(1/3)*C2*C1 is kept as its factors.                      *)
(***************************************************************************)
\* abs(1 - q) > 0.05 in IEEE doubles, for q the rounded quotient of two
\* exactly representable pitches and dev the exact deviation |1 - pn/pp|.
\* The literal 0.05 is the double 0.05 + 2.8E-18.  An exact ratio of 1.05
\* rounds to the double 1.05 + 4.4E-17 and one of 0.95 to 0.95 - 4.4E-17,
\* so an exact deviation of 1/20 is computed as 0.05 + 4.4E-17, which is
\* above the literal.  Every other ratio of the pitches drawn is further
\* than 1E-4 from 1.05 and 0.95, where rounding (1E-16) changes nothing.
DoubleAbove005(dev) == RatGT(dev, Rat(5, 100)) \/ dev = Rat(5, 100)

\* the ratio taken as pitch_parallel/pitch_normal
IsStaggered_inverted(pitch_normal, pitch_parallel) ==
    DoubleAbove005(RatAbs(RatSub(Rat(1, 1), Rat(pitch_parallel, pitch_normal))))

\* staggered = abs(1 - pitch_normal/pitch_parallel) > 0.05
IsStaggered(pitch_normal, pitch_parallel) ==
    DoubleAbove005(RatAbs(RatSub(Rat(1, 1), Rat(pitch_normal, pitch_parallel))))

\* lines 151-160: the row lookup
Grimison_C2(tube_rows, staggered) ==
    LET n0 == PyInt(tube_rows)
    IN  IF n0 < 10
        THEN LET n == IF n0 < 1 THEN 1 ELSE n0
             IN  IF staggered
                 THEN PyIndex(Grimson_Nl_staggered, n)
                 ELSE PyIndex(Grimson_Nl_aligned, n)
        ELSE Value(One)

Nu_Grimison_tube_bank(Re, Pr, Do, tube_rows, pitch_parallel, pitch_normal, C1v, mv) ==
    IF pitch_parallel = 0 THEN Raise("ZeroDivisionError")
    ELSE IF Do = 0 THEN Raise("ZeroDivisionError")
    ELSE LET staggered == IsStaggered(pitch_normal, pitch_parallel)
             C2 == Grimison_C2(tube_rows, staggered)
         IN  IF C2.kind # "value" THEN C2
             ELSE Product([coef |-> 113, Re |-> Re, m |-> mv, Pr |-> Pr,
                           C2 |-> C2.val, C1 |-> C1v])

\* the interpolators Nu_Grimison_tube_bank evaluates, in order
Nu_Grimison_consults(Do, pitch_parallel, pitch_normal, C1v, mv) ==
    IF pitch_parallel = 0 \/ Do = 0 THEN <<>>
    ELSE LET a == Rat(pitch_normal, Do)
             b == Rat(pitch_parallel, Do)
         IN  IF ~IsStaggered(pitch_normal, pitch_parallel)
             THEN <<Consult("Grimison_C1_aligned_interp", b, a, C1v),
                    Consult("Grimison_m_aligned_interp", b, a, mv)>>
             ELSE <<Consult("Grimson_C1_staggered_interp", b, a, C1v),
                    Consult("Grimson_m_staggered_interp", b, a, mv)>>

(***************************************************************************)
(* baffle_leakage_Bell(Ssb, Stb, Sm); Jl is the value of                   *)
(* Bell_baffle_leakage_obj at the point consulted.                         *)
(***************************************************************************)
Bell_baffle_leakage_x_max == Rat(743614, 1000000)

\* x = (Ssb + Stb)/Sm passed on without the clip
baffle_leakage_x_noclip(Ssb, Stb, Sm) == Rat(Ssb + Stb, Sm)

\* x = (Ssb + Stb)/Sm, clipped to the largest fitted x
baffle_leakage_x(Ssb, Stb, Sm) ==
    LET x == Rat(Ssb + Stb, Sm)
    IN  IF RatGT(x, Bell_baffle_leakage_x_max)
        THEN Bell_baffle_leakage_x_max ELSE x

\* only the upper side of the fraction checked
baffle_leakage_Bell_upper_only(Ssb, Stb, Sm, Jl) ==
    IF Sm = 0 THEN Raise("ZeroDivisionError")
    ELSE IF Ssb + Stb = 0 THEN Raise("ZeroDivisionError")
    ELSE LET y == Rat(Ssb, Ssb + Stb)
         IN  IF RatGT(y, Rat(1, 1))
             THEN Raise("ValueError")
             ELSE Value(IF Jl < One THEN Jl ELSE One)

\* the split fraction validated before x = (Ssb + Stb)/Sm is computed
baffle_leakage_Bell_ratio_first(Ssb, Stb, Sm, Jl) ==
    IF Ssb + Stb = 0 THEN Raise("ZeroDivisionError")
    ELSE LET y == Rat(Ssb, Ssb + Stb)
         IN  IF RatGT(y, Rat(1, 1)) \/ RatLT(y, Rat(0, 1))
             THEN Raise("ValueError")
             ELSE IF Sm = 0 THEN Raise("ZeroDivisionError")
             ELSE Value(IF Jl < One THEN Jl ELSE One)

baffle_leakage_Bell(Ssb, Stb, Sm, Jl) ==
    IF Sm = 0 THEN Raise("ZeroDivisionError")
    ELSE IF Ssb + Stb = 0 THEN Raise("ZeroDivisionError")
    ELSE LET y == Rat(Ssb, Ssb + Stb)
         IN  IF RatGT(y, Rat(1, 1)) \/ RatLT(y, Rat(0, 1))
             THEN Raise("ValueError")
             ELSE Value(IF Jl < One THEN Jl ELSE One)

baffle_leakage_consults(Ssb, Stb, Sm, Jl) ==
    IF baffle_leakage_Bell(Ssb, Stb, Sm, Jl).kind # "value" THEN <<>>
    ELSE <<Consult("Bell_baffle_leakage_obj", baffle_leakage_x(Ssb, Stb, Sm),
                   Rat(Ssb, Ssb + Stb), Jl)>>

(***************************************************************************)
(* bundle_bypassing_Bell(bypass_area_fraction, seal_strips,                *)
(* crossflow_rows, laminar); Jb is the value of the surface consulted.     *)
(***************************************************************************)
Bell_bundle_bypass_x_max == Rat(69532, 100000)

\* the surface value returned without the upper clamp
bundle_bypassing_Bell_unclamped(bypass_area_fraction, seal_strips, crossflow_rows, laminar, Jb) ==
    IF crossflow_rows = 0 THEN Raise("ZeroDivisionError")
    ELSE Value(Jb)

bundle_bypassing_Bell(bypass_area_fraction, seal_strips, crossflow_rows, laminar, Jb) ==
    IF crossflow_rows = 0 THEN Raise("ZeroDivisionError")
    ELSE Value(IF Jb < One THEN Jb ELSE One)

\* the lookup made at the fraction itself, without the clip at the fitted
\* maximum
bundle_bypassing_consults_noclip(bypass_area_fraction, seal_strips, crossflow_rows, laminar, Jb) ==
    IF crossflow_rows = 0 THEN <<>>
    ELSE <<Consult(IF laminar THEN "Bell_bundle_bypass_low_obj"
                   ELSE "Bell_bundle_bypass_high_obj",
                   bypass_area_fraction, Rat(seal_strips, crossflow_rows), Jb)>>

bundle_bypassing_consults(bypass_area_fraction, seal_strips, crossflow_rows, laminar, Jb) ==
    IF crossflow_rows = 0 THEN <<>>
    ELSE LET z == Rat(seal_strips, crossflow_rows)
             obj == IF laminar THEN "Bell_bundle_bypass_low_obj"
                    ELSE "Bell_bundle_bypass_high_obj"
             x == IF RatGT(bypass_area_fraction, Bell_bundle_bypass_x_max)
                  THEN Bell_bundle_bypass_x_max ELSE bypass_area_fraction
         IN  <<Consult(obj, x, z, Jb)>>


(***************************************************************************)
(* Real-valued factors that are not computed here are kept as terms: the   *)
(* constant 1.0, a power base**exp (exp in 1/1000), or the value returned  *)
(* by ht.core.wall_factor for its arguments.                               *)
(***************************************************************************)
Unit == [kind |-> "one"]

Pow(base, exp) == [kind |-> "pow", base |-> base, exp |-> exp]

\* Pr_wall=None and Pr_wall=v
NoPrWall == [given |-> FALSE]

PrWallOf(v) == [given |-> TRUE, v |-> v]

\* ht.core.wall_factor(Pr, Pr_wall, Pr_heating_coeff, Pr_cooling_coeff,
\* property_option): a multiplicative correction factor
wall_factor(Pr, Pr_wall, Pr_heating_coeff, Pr_cooling_coeff, property_option) ==
    [kind |-> "wall_factor", Pr |-> Pr, Pr_wall |-> Pr_wall,
     Pr_heating_coeff |-> Pr_heating_coeff,
     Pr_cooling_coeff |-> Pr_cooling_coeff,
     property_option |-> property_option]

(***************************************************************************)
(* Nu_Zukauskas_Bejan(Re, Pr, tube_rows, pitch_parallel, pitch_normal,     *)
(* Pr_wall).  c and m in 1/1000; pitch tells whether f is the pitch-ratio  *)
(* factor (pitch_normal/pitch_parallel)**0.2 or stays 1.0.                 *)
(***************************************************************************)
\* lines 330-350: the coefficients by arrangement and Reynolds band
Zukauskas_Bejan_cmf(Re, staggered) ==
    IF ~staggered
    THEN IF Re < 100 THEN [c |-> 900, m |-> 400, pitch |-> FALSE]
         ELSE IF Re < 1000 THEN [c |-> 520, m |-> 50, pitch |-> FALSE]
         ELSE IF Re < 200000 THEN [c |-> 270, m |-> 630, pitch |-> FALSE]
         ELSE [c |-> 33, m |-> 800, pitch |-> FALSE]
    ELSE IF Re < 500 THEN [c |-> 1040, m |-> 400, pitch |-> FALSE]
         ELSE IF Re < 1000 THEN [c |-> 710, m |-> 500, pitch |-> FALSE]
         ELSE IF Re < 200000 THEN [c |-> 350, m |-> 600, pitch |-> TRUE]
         ELSE [c |-> 31, m |-> 800, pitch |-> TRUE]

\* the row correction called with its default Re=1E4
Nu_Zukauskas_Bejan_default_Re(Re, Pr, tube_rows, pitch_parallel, pitch_normal, Pr_wall) ==
    IF pitch_parallel = 0 THEN Raise("ZeroDivisionError")
    ELSE LET staggered == IsStaggered(pitch_normal, pitch_parallel)
             cmf == Zukauskas_Bejan_cmf(Re, staggered)
             f == IF cmf.pitch
                  THEN Pow(Rat(pitch_normal, pitch_parallel), 200)
                  ELSE Unit
             Cn == Zukauskas_tube_row_correction(tube_rows, staggered, 10000)
         IN  IF Pr_wall.given /\ Pr_wall.v = 0
             THEN Raise("ZeroDivisionError")
             ELSE IF Cn.kind # "value" THEN Cn
             ELSE Product([staggered |-> staggered, c |-> cmf.c, m |-> cmf.m,
                           Re |-> Re, Pr |-> Pr, f |-> f,
                           wall |-> IF Pr_wall.given
                                    THEN Pow(Rat(Pr, Pr_wall.v), 250)
                                    ELSE Unit,
                           Cn |-> Cn.val])

Nu_Zukauskas_Bejan(Re, Pr, tube_rows, pitch_parallel, pitch_normal, Pr_wall) ==
    IF pitch_parallel = 0 THEN Raise("ZeroDivisionError")
    ELSE LET staggered == IsStaggered(pitch_normal, pitch_parallel)
             cmf == Zukauskas_Bejan_cmf(Re, staggered)
             f == IF cmf.pitch
                  THEN Pow(Rat(pitch_normal, pitch_parallel), 200)
                  ELSE Unit
             Cn == Zukauskas_tube_row_correction(tube_rows, staggered, Re)
         IN  IF Pr_wall.given /\ Pr_wall.v = 0
             THEN Raise("ZeroDivisionError")
             ELSE IF Cn.kind # "value" THEN Cn
             ELSE Product([staggered |-> staggered, c |-> cmf.c, m |-> cmf.m,
                           Re |-> Re, Pr |-> Pr, f |-> f,
                           wall |-> IF Pr_wall.given
                                    THEN Pow(Rat(Pr, Pr_wall.v), 250)
                                    ELSE Unit,
                           Cn |-> Cn.val])

(***************************************************************************)
(* ESDU_tube_angle_correction(angle) = sin(radians(angle))**0.6, in        *)
(* 1/10000, for the two angles drawn: 90 gives the double 1.0 exactly, 75  *)
(* gives 0.9794.                                                           *)
(***************************************************************************)
ESDU_tube_angle_correction(angle) == IF angle = 90 THEN One ELSE 9794

(***************************************************************************)
(* Nu_ESDU_73031(Re, Pr, tube_rows, pitch_parallel, pitch_normal, Pr_wall, *)
(* angle).  a and m in 1/1000.                                             *)
(***************************************************************************)
\* the breakpoints 300 and 2E5 given to the upper band
ESDU_73031_am_lt(Re, staggered) ==
    IF staggered
    THEN IF Re < 300 THEN [a |-> 1309, m |-> 360]
         ELSE IF Re < 200000 THEN [a |-> 273, m |-> 635]
         ELSE [a |-> 124, m |-> 700]
    ELSE IF Re < 300 THEN [a |-> 742, m |-> 431]
         ELSE IF Re < 200000 THEN [a |-> 211, m |-> 651]
         ELSE [a |-> 116, m |-> 700]

\* lines 575-588: the coefficients by arrangement and Reynolds band
ESDU_73031_am(Re, staggered) ==
    IF staggered
    THEN IF Re <= 300 THEN [a |-> 1309, m |-> 360]
         ELSE IF Re <= 200000 THEN [a |-> 273, m |-> 635]
         ELSE [a |-> 124, m |-> 700]
    ELSE IF Re <= 300 THEN [a |-> 742, m |-> 431]
         ELSE IF Re <= 200000 THEN [a |-> 211, m |-> 651]
         ELSE [a |-> 116, m |-> 700]

\* the row factor taken from the Zukauskas tables, which reach 1 at 20 rows
Nu_ESDU_73031_F2_Zukauskas(tube_rows, staggered) ==
    Zukauskas_tube_row_correction(tube_rows, staggered, 3000)

\* line 590: the row factor, with the defaults Re=3000, method='Hewitt'
Nu_ESDU_73031_F2(tube_rows, staggered) ==
    ESDU_tube_row_correction(tube_rows, staggered, 3000, "Hewitt")

\* the property factor computed in place, as Nu_Zukauskas_Bejan does
Nu_ESDU_73031_F1_inline(Pr, Pr_wall) ==
    IF Pr_wall.given THEN Pow(Rat(Pr, Pr_wall.v), 260) ELSE Unit

\* lines 592-597: the property factor
Nu_ESDU_73031_F1(Pr, Pr_wall) ==
    IF Pr_wall.given
    THEN wall_factor(Pr, Pr_wall.v, 260, 260, "WALL_FACTOR_PRANDTL")
    ELSE Unit

Nu_ESDU_73031(Re, Pr, tube_rows, pitch_parallel, pitch_normal, Pr_wall, angle) ==
    IF pitch_parallel = 0 THEN Raise("ZeroDivisionError")
    ELSE LET staggered == IsStaggered(pitch_normal, pitch_parallel)
             am == ESDU_73031_am(Re, staggered)
             F2 == Nu_ESDU_73031_F2(tube_rows, staggered)
         IN  IF F2.kind # "value" THEN F2
             ELSE Product([staggered |-> staggered, a |-> am.a, m |-> am.m,
                           Re |-> Re, Pr |-> Pr,
                           F1 |-> Nu_ESDU_73031_F1(Pr, Pr_wall),
                           F2 |-> F2.val,
                           F3 |-> ESDU_tube_angle_correction(angle)])

\* the collaborators Nu_ESDU_73031 consults: wall_factor, when the row and
\* angle factors have been computed and Pr_wall is given
Nu_ESDU_73031_consults(Re, Pr, tube_rows, pitch_parallel, pitch_normal, Pr_wall, angle) ==
    IF Nu_ESDU_73031(Re, Pr, tube_rows, pitch_parallel, pitch_normal,
                     Pr_wall, angle).kind = "value" /\ Pr_wall.given
    THEN <<Consult("wall_factor", Pr, Pr_wall.v,
                   Nu_ESDU_73031_F1(Pr, Pr_wall))>>
    ELSE <<>>

(***************************************************************************)
(* Nu_HEDH_tube_bank(Re, Pr, Do, tube_rows, pitch_parallel, pitch_normal). *)
(* The Nusselt number of the returned product Nu*fn*fA is kept as the      *)
(* pitch ratios a and b it is computed from, the branch of the voidage     *)
(* (b >= 1 or not) and of fA (staggered or not), and the row factor fn.    *)
(***************************************************************************)
\* the row factor with n read as tube_rows: (1.0 + (n - 1.0))/n
Nu_HEDH_tube_bank_fn_bound(tube_rows) ==
    IF tube_rows.h = 0 THEN Raise("ZeroDivisionError") ELSE Value(One)

\* lines 702-705: the row factor; the name n is bound nowhere
Nu_HEDH_tube_bank_fn(tube_rows) ==
    IF tube_rows.h < 2 * 10 THEN Raise("NameError") ELSE Value(One)

Nu_HEDH_tube_bank(Re, Pr, Do, tube_rows, pitch_parallel, pitch_normal) ==
    IF pitch_parallel = 0 THEN Raise("ZeroDivisionError")
    ELSE IF Do = 0 THEN Raise("ZeroDivisionError")
    ELSE IF pitch_normal = 0 THEN Raise("ZeroDivisionError")
    ELSE LET staggered == IsStaggered(pitch_normal, pitch_parallel)
             a == Rat(pitch_normal, Do)
             b == Rat(pitch_parallel, Do)
             fn_ == Nu_HEDH_tube_bank_fn(tube_rows)
         IN  IF fn_.kind # "value" THEN fn_
             ELSE Product([staggered |-> staggered, Re |-> Re, Pr |-> Pr,
                           a |-> a, b |-> b,
                           voidage |-> IF ~RatLT(b, Rat(1, 1))
                                       THEN "1-pi/(4a)" ELSE "1-pi/(4ab)",
                           fA |-> IF ~staggered THEN "inline" ELSE "staggered",
                           fn |-> fn_.val])

(***************************************************************************)
(* dP_Zukauskas(Re, n, ST, SL, D, rho, Vmax); fv and xv are the values of  *)
(* the friction and correction surfaces consulted.  The returned product   *)
(* n*x*f*rho/2*Vmax**2 is kept as its factors.                             *)
(***************************************************************************)
\* p/q for q # 0
RatDiv(p, q) == Rat(p[1] * q[2], p[2] * q[1])

\* values a friction surface and a correction surface can give, in 1/10000
dPfVals == {2000, 3500}

dPxVals == {One, 11000}

\* the pitches compared with the 5 % tolerance of the Nusselt correlations
dP_Zukauskas_aligned_tolerance(ST, SL, D) == ~IsStaggered(ST, SL)

\* line 1088: a == b, the pitch ratios compared without tolerance
dP_Zukauskas_aligned(ST, SL, D) == Rat(ST, D) = Rat(SL, D)

\* the inline parameter computed as a/b, which never fails at b = 1
dP_Zukauskas_parameter_ratio(ST, SL, D) ==
    IF SL = 0 THEN Raise("ZeroDivisionError")
    ELSE Value(RatDiv(Rat(ST, D), Rat(SL, D)))

\* lines 1089 and 1093: the pitch parameter of the correction surface
dP_Zukauskas_parameter(ST, SL, D) ==
    LET a == Rat(ST, D)
        b == Rat(SL, D)
    IN  IF dP_Zukauskas_aligned(ST, SL, D)
        THEN IF b = Rat(1, 1) THEN Raise("ZeroDivisionError")
             ELSE Value(RatDiv(RatSub(a, Rat(1, 1)), RatSub(b, Rat(1, 1))))
        ELSE IF SL = 0 THEN Raise("ZeroDivisionError")
             ELSE Value(RatDiv(a, b))

dP_Zukauskas(Re, n, ST, SL, D, rho, Vmax, fv, xv) ==
    IF D = 0 THEN Raise("ZeroDivisionError")
    ELSE LET parameter == dP_Zukauskas_parameter(ST, SL, D)
         IN  IF parameter.kind # "value" THEN parameter
             ELSE Product([n |-> n, x |-> xv, f |-> fv, rho |-> rho,
                           Vmax |-> Vmax])

\* the surfaces dP_Zukauskas evaluates, in order
dP_Zukauskas_consults(Re, n, ST, SL, D, rho, Vmax, fv, xv) ==
    IF dP_Zukauskas(Re, n, ST, SL, D, rho, Vmax, fv, xv).kind # "value"
    THEN <<>>
    ELSE LET parameter == dP_Zukauskas_parameter(ST, SL, D).val
         IN  IF dP_Zukauskas_aligned(ST, SL, D)
             THEN <<Consult("dP_inline_f", Re, Rat(SL, D), fv),
                    Consult("dP_inline_correction", parameter, Re, xv)>>
             ELSE <<Consult("dP_staggered_f", Re, Rat(ST, D), fv),
                    Consult("dP_staggered_correction", parameter, Re, xv)>>

(***************************************************************************)
(* dP_Kern(m, rho, mu, DShell, LSpacing, pitch, Do, NBaffles, mu_w); fv is *)
(* the value of the friction-factor spline Kern_f_Re at the Reynolds       *)
(* number.  The returned quotient is kept as the friction factor, the      *)
(* arguments the uncorrected value is computed from, and the viscosity     *)
(* correction corr it is divided by.                                       *)
(***************************************************************************)
\* base**exp on doubles (exp in 1/1000): 1.0**exp is 1.0 exactly
PyPow(base, exp) == IF base = Rat(1, 1) THEN Unit ELSE Pow(base, exp)

\* values the friction-factor spline can give, in 1/10000
KernfVals == {2500, 3000}

\* lines 808-811: the divisor (mu/mu_w)**0.14, 1.0 when mu_w is None or 0
dP_Kern_corr(mu, mu_w) ==
    IF mu_w.given /\ mu_w.v # 0 THEN PyPow(Rat(mu, mu_w.v), 140) ELSE Unit

dP_Kern(m, rho, mu, DShell, LSpacing, pitch, Do, NBaffles, mu_w, fv) ==
    IF pitch = 0 THEN Raise("ZeroDivisionError")
    ELSE IF Do = 0 THEN Raise("ZeroDivisionError")
    ELSE IF DShell * (pitch - Do) * LSpacing = 0
    THEN Raise("ZeroDivisionError")
    ELSE IF rho = 0 THEN Raise("ZeroDivisionError")
    ELSE IF mu = 0 THEN Raise("ZeroDivisionError")
    ELSE Product([f |-> fv, m |-> m, rho |-> rho, DShell |-> DShell,
                  LSpacing |-> LSpacing, pitch |-> pitch, Do |-> Do,
                  NBaffles |-> NBaffles, corr |-> dP_Kern_corr(mu, mu_w)])

\* the spline dP_Kern evaluates, at Re = rho*De*Vs/mu
dP_Kern_consults(m, rho, mu, DShell, LSpacing, pitch, Do, NBaffles, mu_w, fv) ==
    IF dP_Kern(m, rho, mu, DShell, LSpacing, pitch, Do, NBaffles, mu_w,
               fv).kind # "value"
    THEN <<>>
    ELSE <<Consult("Kern_f_Re", "rho*De*Vs/mu", "", fv)>>

(***************************************************************************)
(* The independent-variable samples the interpolators are built from, as   *)
(* written in the source.  A sample is <<i, f>>: the decimal i + f/10^8,   *)
(* exact for every literal (1.0/6.0 is cut at 8 places).                   *)
(***************************************************************************)
\* two samples exchanged
Grimison_SL_aligned_exchanged ==
    <<<<1, 25000000>>, <<2, 0>>, <<1, 50000000>>, <<3, 0>>>>

Grimison_SL_aligned ==
    <<<<1, 25000000>>, <<1, 50000000>>, <<2, 0>>, <<3, 0>>>>

\* line 47: the same array
Grimison_ST_aligned == Grimison_SL_aligned

Grimson_SL_staggered ==
    <<<<1, 25000000>>, <<1, 50000000>>, <<2, 0>>, <<3, 0>>, <<1, 0>>,
      <<1, 25000000>>, <<1, 50000000>>, <<2, 0>>, <<3, 0>>, <<0, 90000000>>,
      <<1, 12500000>>, <<1, 25000000>>, <<1, 50000000>>, <<2, 0>>, <<3, 0>>,
      <<0, 60000000>>, <<0, 90000000>>, <<1, 12500000>>, <<1, 25000000>>,
      <<1, 50000000>>, <<2, 0>>, <<3, 0>>>>

Grimson_ST_staggered ==
    <<<<1, 25000000>>, <<1, 25000000>>, <<1, 25000000>>, <<1, 25000000>>,
      <<1, 50000000>>, <<1, 50000000>>, <<1, 50000000>>, <<1, 50000000>>,
      <<1, 50000000>>, <<2, 0>>, <<2, 0>>, <<2, 0>>, <<2, 0>>, <<2, 0>>,
      <<2, 0>>, <<3, 0>>, <<3, 0>>, <<3, 0>>, <<3, 0>>, <<3, 0>>, <<3, 0>>,
      <<3, 0>>>>

_Kern_dP_Res ==
    <<<<9, 95240000>>, <<11, 3490000>>, <<12, 7860000>>, <<13, 5040000>>,
      <<14, 1210000>>, <<15, 4310000>>, <<16, 15110000>>, <<17, 11760000>>,
      <<17, 91050000>>, <<18, 98220000>>, <<19, 98790000>>, <<21, 4840000>>,
      <<22, 2170000>>, <<23, 18930000>>, <<24, 89730000>>, <<26, 4950000>>,
      <<27, 78620000>>, <<29, 83500000>>, <<31, 82520000>>, <<33, 95060000>>,
      <<35, 98220000>>, <<38, 38520000>>, <<41, 48100000>>, <<43, 96640000>>,
      <<47, 20830000>>, <<50, 68910000>>, <<54, 7820000>>, <<58, 6350000>>,
      <<63, 56670000>>, <<68, 25370000>>, <<74, 24700000>>, <<78, 69570000>>,
      <<83, 95730000>>, <<90, 15110000>>, <<95, 55960000>>,
      <<102, 61300000>>, <<110, 19100000>>, <<116, 80600000>>,
      <<128, 72400000>>, <<137, 34500000>>, <<150, 38400000>>,
      <<161, 48400000>>, <<171, 18500000>>, <<185, 3100000>>,
      <<196, 13900000>>, <<210, 63900000>>, <<230, 65300000>>,
      <<250, 93300000>>, <<281, 99600000>>, <<300, 88400000>>,
      <<329, 47200000>>, <<353, 84200000>>, <<384, 96800000>>,
      <<408, 10800000>>, <<444, 800000>>, <<505, 51300000>>,
      <<560, 82100000>>, <<638, 50600000>>, <<690, 22700000>>,
      <<741, 25400000>>, <<827, 68200000>>, <<918, 20500000>>,
      <<1018, 63000000>>, <<1122, 76000000>>, <<1213, 62000000>>,
      <<1320, 38000000>>, <<1417, 94000000>>, <<1522, 93000000>>,
      <<1667, 69000000>>, <<1838, 11000000>>, <<2012, 76000000>>,
      <<2247, 44000000>>, <<2592, 21000000>>, <<2932, 18000000>>,
      <<3381, 87000000>>, <<3875, 42000000>>, <<4440, 83000000>>,
      <<5056, 16000000>>, <<5608, 95000000>>, <<6344, 58000000>>,
      <<7038, 48000000>>, <<8224, 34000000>>, <<9123, 83000000>>,
      <<10121, 70000000>>, <<11598, 0>>, <<12701, 40000000>>, <<14090, 0>>,
      <<15938, 50000000>>, <<17452, 90000000>>, <<19112, 60000000>>,
      <<20929, 30000000>>, <<24614, 0>>, <<29324, 60000000>>,
      <<34044, 80000000>>, <<37282, 20000000>>, <<42999, 90000000>>,
      <<50570, 20000000>>, <<55737, 90000000>>, <<59860, 60000000>>,
      <<65553, 0>>, <<70399, 20000000>>, <<78101, 50000000>>,
      <<84965, 70000000>>, <<96735, 30000000>>, <<110139, 0>>, <<122977, 0>>,
      <<136431, 0>>, <<152339, 0>>, <<165740, 0>>, <<180319, 0>>,
      <<194904, 0>>, <<207981, 0>>, <<223357, 0>>, <<241440, 0>>,
      <<257621, 0>>, <<283946, 0>>, <<317042, 0>>, <<353996, 0>>,
      <<408315, 0>>, <<452956, 0>>, <<519041, 0>>, <<590939, 0>>,
      <<668466, 0>>, <<751216, 0>>, <<827981, 0>>, <<894985, 0>>,
      <<1012440, 0>>>>

_dP_staggered_Res ==
    <<<<10, 0>>, <<10, 91290000>>, <<11, 67330000>>, <<13, 10240000>>,
      <<14, 1530000>>, <<14, 99180000>>, <<17, 15360000>>, <<18, 52670000>>,
      <<19, 81820000>>, <<20, 72610000>>, <<22, 24300000>>, <<23, 79360000>>,
      <<26, 70570000>>, <<28, 56630000>>, <<32, 27320000>>, <<34, 85800000>>,
      <<37, 28790000>>, <<41, 5540000>>, <<44, 47220000>>, <<47, 89490000>>,
      <<51, 23370000>>, <<55, 33690000>>, <<65, 18210000>>, <<70, 40250000>>,
      <<76, 4370000>>, <<82, 13680000>>, <<88, 71820000>>, <<95, 12840000>>,
      <<100, 55300000>>, <<103, 38600000>>, <<108, 39800000>>,
      <<116, 44100000>>, <<118, 45500000>>, <<127, 80800000>>,
      <<129, 18800000>>, <<139, 38900000>>, <<140, 89900000>>,
      <<153, 66500000>>, <<155, 44400000>>, <<167, 59500000>>,
      <<168, 91400000>>, <<182, 79300000>>, <<197, 77100000>>,
      <<201, 61300000>>, <<217, 76800000>>, <<223, 55900000>>,
      <<241, 75900000>>, <<246, 45700000>>, <<268, 51600000>>,
      <<278, 91500000>>, <<292, 86600000>>, <<304, 20800000>>,
      <<322, 53500000>>, <<335, 1500000>>, <<351, 77200000>>,
      <<366, 48200000>>, <<402, 41200000>>, <<415, 41400000>>,
      <<451, 79000000>>, <<465, 31400000>>, <<497, 55900000>>,
      <<512, 45300000>>, <<542, 68000000>>, <<570, 32100000>>,
      <<609, 31200000>>, <<610, 16300000>>, <<671, 3900000>>,
      <<671, 95300000>>, <<731, 91700000>>, <<732, 91500000>>,
      <<813, 88600000>>, <<839, 91900000>>, <<896, 80800000>>,
      <<977, 69000000>>, <<1016, 19000000>>, <<1119, 14000000>>,
      <<1221, 31000000>>, <<1244, 48000000>>, <<1346, 7000000>>,
      <<1455, 66000000>>, <<1482, 44000000>>, <<1603, 12000000>>,
      <<1616, 93000000>>, <<1748, 56000000>>, <<1780, 79000000>>,
      <<1925, 77000000>>, <<1961, 27000000>>, <<2056, 71000000>>,
      <<2060, 37000000>>, <<2266, 81000000>>, <<2308, 27000000>>,
      <<2474, 96000000>>, <<2542, 20000000>>, <<2723, 3000000>>,
      <<2799, 84000000>>, <<2996, 90000000>>, <<3053, 95000000>>,
      <<3274, 27000000>>, <<3363, 57000000>>, <<3606, 9000000>>,
      <<4001, 84000000>>, <<4005, 75000000>>, <<4367, 3000000>>,
      <<4411, 71000000>>, <<4809, 60000000>>, <<4854, 24000000>>,
      <<5297, 21000000>>, <<5346, 19000000>>, <<5777, 99000000>>,
      <<5836, 50000000>>, <<6184, 44000000>>, <<6739, 62000000>>,
      <<6817, 15000000>>, <<7422, 65000000>>, <<7435, 62000000>>,
      <<8188, 61000000>>, <<8256, 81000000>>, <<9005, 89000000>>,
      <<9089, 79000000>>, <<9914, 9000000>>, <<9931, 42000000>>,
      <<10832, 0>>, <<11357, 60000000>>, <<11913, 20000000>>,
      <<12508, 20000000>>, <<13011, 20000000>>, <<13642, 40000000>>,
      <<14309, 80000000>>, <<15024, 50000000>>, <<15759, 50000000>>,
      <<16387, 0>>, <<17188, 60000000>>, <<18046, 50000000>>,
      <<18772, 30000000>>, <<19683, 70000000>>, <<20458, 20000000>>,
      <<22313, 40000000>>, <<22950, 80000000>>, <<24573, 90000000>>,
      <<26311, 70000000>>, <<27049, 20000000>>, <<28976, 20000000>>,
      <<29516, 60000000>>, <<31605, 0>>, <<32505, 60000000>>,
      <<34805, 60000000>>, <<35453, 40000000>>, <<37961, 90000000>>,
      <<39045, 0>>, <<39838, 40000000>>, <<40171, 70000000>>,
      <<43802, 40000000>>, <<43836, 0>>, <<47853, 0>>, <<48253, 30000000>>,
      <<52629, 10000000>>, <<57429, 80000000>>, <<57958, 70000000>>,
      <<60823, 70000000>>, <<63808, 0>>, <<66429, 90000000>>,
      <<72454, 10000000>>, <<76644, 80000000>>, <<79791, 30000000>>,
      <<86914, 70000000>>, <<87727, 50000000>>, <<94796, 50000000>>,
      <<95846, 90000000>>, <<102543, 0>>, <<103393, 0>>, <<112734, 0>>,
      <<123172, 0>>, <<124193, 0>>, <<134342, 0>>, <<136770, 0>>,
      <<147946, 0>>, <<149173, 0>>, <<161368, 0>>, <<162701, 0>>,
      <<177710, 0>>, <<179183, 0>>, <<193825, 0>>, <<197329, 0>>,
      <<203406, 0>>, <<205093, 0>>, <<224028, 0>>, <<225878, 0>>,
      <<246499, 0>>, <<248787, 0>>, <<268891, 0>>, <<271756, 0>>,
      <<296172, 0>>, <<299307, 0>>, <<323098, 0>>, <<329652, 0>>,
      <<355768, 0>>, <<363073, 0>>, <<388139, 0>>, <<399883, 0>>,
      <<411321, 0>>, <<411637, 0>>, <<453053, 0>>, <<453370, 0>>,
      <<494224, 0>>, <<499159, 0>>, <<539099, 0>>, <<549766, 0>>,
      <<593776, 0>>, <<617117, 0>>, <<617548, 0>>, <<679896, 0>>,
      <<741914, 0>>, <<748826, 0>>, <<816818, 0>>, <<899347, 0>>,
      <<899975, 0>>, <<991217, 0>>, <<1029890, 0>>, <<1039630, 0>>,
      <<1134310, 0>>, <<1145030, 0>>, <<1249310, 0>>, <<1261120, 0>>,
      <<1375630, 0>>, <<1388740, 0>>, <<1515150, 0>>, <<1529530, 0>>,
      <<1668760, 0>>, <<1684660, 0>>, <<1837940, 0>>, <<1855450, 0>>,
      <<2063320, 0>>, <<2064190, 0>>, <<2251140, 0>>, <<2273460, 0>>,
      <<2479450, 0>>, <<2502990, 0>>, <<2730830, 0>>, <<2756750, 0>>>>

_dP_staggered_correction_parameters ==
    <<<<0, 43870000>>, <<0, 47064700>>, <<0, 49436600>>, <<0, 52085000>>,
      <<0, 54278700>>, <<0, 58301900>>, <<0, 60931900>>, <<0, 65904700>>,
      <<0, 68541300>>, <<0, 72958200>>, <<0, 80098200>>, <<0, 84214000>>,
      <<0, 89244900>>, <<0, 94730900>>, <<1, 903000>>, <<1, 7052000>>,
      <<1, 16389000>>, <<1, 22243000>>, <<1, 26584000>>, <<1, 32314000>>,
      <<1, 37597000>>, <<1, 40437000>>, <<1, 45385000>>, <<1, 51093000>>,
      <<1, 55814000>>, <<1, 61775000>>, <<1, 68647000>>, <<1, 74589000>>,
      <<1, 79853000>>, <<1, 86586000>>, <<1, 92335000>>, <<1, 97322000>>,
      <<2, 12053000>>, <<2, 22751000>>, <<2, 34521000>>, <<2, 45793000>>,
      <<2, 58193000>>, <<2, 71226000>>, <<2, 84909000>>, <<2, 99282000>>,
      <<3, 14389000>>, <<3, 22668000>>, <<3, 32915000>>, <<3, 54351000>>>>

_dP_inline_Res ==
    <<<<28, 50940000>>, <<30, 80920000>>, <<32, 97270000>>, <<35, 35630000>>,
      <<41, 21010000>>, <<45, 93650000>>, <<49, 16220000>>, <<52, 61430000>>,
      <<56, 31020000>>, <<59, 10700000>>, <<63, 75330000>>, <<68, 36050000>>,
      <<73, 16070000>>, <<82, 98960000>>, <<91, 26790000>>,
      <<107, 82900000>>, <<116, 52800000>>, <<124, 71300000>>,
      <<134, 77400000>>, <<144, 23700000>>, <<157, 10600000>>,
      <<169, 78400000>>, <<183, 48400000>>, <<202, 17300000>>,
      <<218, 48800000>>, <<241, 16300000>>, <<278, 93800000>>,
      <<301, 44700000>>, <<325, 77200000>>, <<352, 6900000>>,
      <<402, 66700000>>, <<439, 43100000>>, <<479, 55100000>>,
      <<528, 45700000>>, <<576, 70600000>>, <<600, 39000000>>,
      <<654, 32100000>>, <<666, 66500000>>, <<722, 2600000>>,
      <<795, 67900000>>, <<802, 40100000>>, <<883, 59400000>>,
      <<965, 21100000>>, <<973, 77400000>>, <<1022, 26000000>>,
      <<1107, 38000000>>, <<1126, 59000000>>, <<1220, 48000000>>,
      <<1343, 51000000>>, <<1368, 32000000>>, <<1468, 16000000>>,
      <<1616, 19000000>>, <<1646, 72000000>>, <<1764, 4000000>>,
      <<1814, 79000000>>, <<1944, 21000000>>, <<1998, 93000000>>,
      <<2038, 12000000>>, <<2041, 6000000>>, <<2246, 18000000>>,
      <<2249, 48000000>>, <<2455, 20000000>>, <<2476, 81000000>>,
      <<2705, 84000000>>, <<2729, 59000000>>, <<2982, 7000000>>,
      <<3008, 17000000>>, <<3257, 90000000>>, <<3313, 34000000>>,
      <<3590, 40000000>>, <<3618, 29000000>>, <<3946, 71000000>>,
      <<4030, 55000000>>, <<4063, 47000000>>, <<4434, 98000000>>,
      <<4446, 5000000>>, <<4852, 32000000>>, <<4895, 14000000>>,
      <<5347, 30000000>>, <<5394, 74000000>>, <<5830, 48000000>>,
      <<5994, 16000000>>, <<6003, 24000000>>, <<6545, 85000000>>,
      <<6615, 94000000>>, <<7143, 99000000>>, <<7226, 20000000>>,
      <<7873, 10000000>>, <<8101, 49000000>>, <<8113, 39000000>>,
      <<8928, 33000000>>, <<8941, 23000000>>, <<9765, 31000000>>,
      <<9845, 6000000>>, <<10343, 90000000>>, <<10430, 30000000>>,
      <<11407, 30000000>>, <<11956, 60000000>>, <<12562, 50000000>>,
      <<13176, 90000000>>, <<13719, 70000000>>, <<14521, 40000000>>,
      <<15236, 60000000>>, <<16651, 0>>, <<17465, 40000000>>, <<18505, 0>>,
      <<20393, 20000000>>, <<20419, 30000000>>, <<22474, 50000000>>,
      <<22503, 30000000>>, <<24559, 0>>, <<25546, 20000000>>,
      <<27064, 90000000>>, <<29789, 70000000>>, <<30724, 60000000>>,
      <<32829, 20000000>>, <<34810, 90000000>>, <<36179, 80000000>>,
      <<38362, 80000000>>, <<39871, 40000000>>, <<40721, 20000000>>,
      <<41061, 40000000>>, <<44854, 20000000>>, <<45239, 50000000>>,
      <<48975, 70000000>>, <<49855, 50000000>>, <<53971, 70000000>>,
      <<54426, 40000000>>, <<59979, 70000000>>, <<60058, 10000000>>,
      <<66101, 30000000>>, <<66184, 50000000>>, <<72230, 60000000>>,
      <<72907, 0>>, <<81043, 80000000>>, <<81128, 80000000>>,
      <<89317, 20000000>>, <<89406, 80000000>>, <<97574, 20000000>>,
      <<98430, 60000000>>, <<103433, 0>>, <<104341, 0>>, <<112924, 0>>,
      <<114990, 0>>, <<123239, 0>>, <<126726, 0>>, <<135811, 0>>,
      <<139659, 0>>, <<149668, 0>>, <<153913, 0>>, <<163348, 0>>,
      <<169621, 0>>, <<180015, 0>>, <<186933, 0>>, <<206011, 0>>,
      <<206189, 0>>, <<227042, 0>>, <<227233, 0>>, <<247788, 0>>,
      <<250418, 0>>, <<273078, 0>>, <<275976, 0>>, <<300948, 0>>,
      <<304142, 0>>, <<331663, 0>>, <<335183, 0>>, <<365513, 0>>,
      <<369392, 0>>, <<406751, 0>>, <<407092, 0>>, <<448264, 0>>,
      <<448640, 0>>, <<494013, 0>>, <<494428, 0>>, <<544433, 0>>,
      <<544890, 0>>, <<605857, 0>>, <<606365, 0>>, <<667691, 0>>,
      <<668251, 0>>, <<735835, 0>>, <<736453, 0>>, <<803766, 0>>,
      <<810935, 0>>, <<877478, 0>>, <<893699, 0>>, <<967033, 0>>,
      <<984910, 0>>, <<1044050, 0>>, <<1044920, 0>>, <<1150600, 0>>,
      <<1151570, 0>>, <<1268030, 0>>, <<1269100, 0>>, <<1397450, 0>>,
      <<1398620, 0>>, <<1540070, 0>>, <<1541370, 0>>, <<1697250, 0>>,
      <<1698680, 0>>, <<1854500, 0>>, <<1871040, 0>>>>

_dP_inline_correction_parameters ==
    <<<<0, 6616370>>, <<0, 7679560>>, <<0, 8115210>>, <<0, 9101400>>,
      <<0, 9659460>>, <<0, 10286300>>, <<0, 11466300>>, <<0, 11745500>>,
      <<0, 13210900>>, <<0, 13519600>>, <<0, 15208900>>, <<0, 16855800>>,
      <<0, 19133000>>, <<0, 19203700>>, <<0, 21534000>>, <<0, 21773600>>,
      <<0, 24466700>>, <<0, 24774700>>, <<0, 32483900>>, <<0, 39208700>>,
      <<0, 44612900>>, <<2, 22860000>>, <<2, 38850000>>, <<2, 63783000>>,
      <<2, 92864000>>, <<3, 382000>>, <<4, 5259000>>, <<4, 25510000>>,
      <<4, 54434000>>, <<4, 84314000>>, <<5, 9577000>>, <<5, 59171000>>,
      <<5, 71411000>>>>

Bell_baffle_configuration_Fcs ==
    <<<<0, 0>>, <<0, 1388890>>, <<0, 2777780>>, <<0, 4166670>>,
      <<0, 5381940>>, <<0, 6597220>>, <<0, 10069400>>, <<0, 11458300>>,
      <<0, 12673600>>, <<0, 14062500>>, <<0, 15277800>>, <<0, 16666700>>,
      <<0, 17881900>>, <<0, 19270800>>, <<0, 21527800>>, <<0, 22743100>>,
      <<0, 24131900>>, <<0, 25520800>>, <<0, 26736100>>, <<0, 28125000>>,
      <<0, 29513900>>, <<0, 34027800>>, <<0, 35416700>>, <<0, 36631900>>,
      <<0, 38020800>>, <<0, 39409700>>, <<0, 40277800>>, <<0, 41666700>>,
      <<0, 43055600>>, <<0, 44444400>>, <<0, 47569400>>, <<0, 48958300>>,
      <<0, 50347200>>, <<0, 51736100>>, <<0, 53125000>>, <<0, 54513900>>,
      <<0, 56076400>>, <<0, 57465300>>, <<0, 58854200>>, <<0, 62500000>>,
      <<0, 63888900>>, <<0, 65277800>>, <<0, 66840300>>, <<0, 68229200>>,
      <<0, 69791700>>, <<0, 70138900>>, <<0, 71354200>>, <<0, 72916700>>,
      <<0, 74305600>>, <<0, 75868100>>, <<0, 80208300>>, <<0, 81770800>>,
      <<0, 83333300>>, <<0, 84895800>>, <<0, 86631900>>, <<0, 88194400>>,
      <<0, 90104200>>, <<0, 91840300>>, <<0, 93402800>>, <<0, 94791700>>,
      <<0, 96006900>>, <<0, 97048600>>, <<0, 97743100>>, <<0, 98437500>>,
      <<0, 99131900>>, <<0, 99479200>>, <<1, 0>>>>

Bell_baffle_leakage_x ==
    <<<<0, 0>>, <<0, 1000>>, <<0, 10000>>, <<0, 100000>>, <<0, 377790>>,
      <<0, 885994>>, <<0, 1264400>>, <<0, 1896290>>, <<0, 2136940>>,
      <<0, 2414280>>, <<0, 2893130>>, <<0, 3390930>>, <<0, 3766280>>,
      <<0, 4251240>>, <<0, 4871520>>, <<0, 5234020>>, <<0, 5525420>>,
      <<0, 6146310>>, <<0, 6766580>>, <<0, 7199560>>, <<0, 7708380>>,
      <<0, 8130200>>, <<0, 8852140>>, <<0, 9563080>>, <<0, 10163800>>,
      <<0, 10214500>>, <<0, 11150800>>, <<0, 11926600>>, <<0, 12261000>>,
      <<0, 12915500>>, <<0, 13677800>>, <<0, 14481800>>, <<0, 14891400>>,
      <<0, 15592000>>, <<0, 16477400>>, <<0, 16868000>>, <<0, 17755200>>,
      <<0, 18150100>>, <<0, 18922400>>, <<0, 19608700>>, <<0, 20055700>>,
      <<0, 20920900>>, <<0, 22031700>>, <<0, 23068300>>, <<0, 23609600>>,
      <<0, 24252500>>, <<0, 24719800>>, <<0, 25565300>>, <<0, 25910000>>,
      <<0, 26622800>>, <<0, 27419300>>, <<0, 28173200>>, <<0, 28599300>>,
      <<0, 29560100>>, <<0, 30204200>>, <<0, 31126900>>, <<0, 31257500>>,
      <<0, 32210700>>, <<0, 33016000>>, <<0, 33290900>>, <<0, 34126100>>,
      <<0, 34710900>>, <<0, 35389900>>, <<0, 36040800>>, <<0, 36931200>>,
      <<0, 37430100>>, <<0, 38041300>>, <<0, 38883100>>, <<0, 39283600>>,
      <<0, 40174600>>, <<0, 40396100>>, <<0, 41372300>>, <<0, 42250200>>,
      <<0, 42482500>>, <<0, 43293100>>, <<0, 44227400>>, <<0, 45060200>>,
      <<0, 45481500>>, <<0, 46380400>>, <<0, 46923000>>, <<0, 47564500>>,
      <<0, 48356300>>, <<0, 49143200>>, <<0, 50127700>>, <<0, 50171300>>,
      <<0, 51024700>>, <<0, 51319300>>, <<0, 52350600>>, <<0, 53001900>>,
      <<0, 53460700>>, <<0, 54491200>>, <<0, 55067900>>, <<0, 55721200>>,
      <<0, 56382600>>, <<0, 56914200>>, <<0, 57699700>>, <<0, 58358500>>,
      <<0, 58897900>>, <<0, 59551800>>, <<0, 60121500>>, <<0, 60170200>>,
      <<0, 61158500>>, <<0, 61322100>>, <<0, 62341700>>, <<0, 62975300>>,
      <<0, 63421100>>, <<0, 64000900>>, <<0, 64685100>>, <<0, 65397100>>,
      <<0, 66508400>>, <<0, 67275800>>, <<0, 68313600>>, <<0, 68905600>>,
      <<0, 69893200>>, <<0, 70212900>>, <<0, 71152300>>, <<0, 71253200>>,
      <<0, 72241500>>, <<0, 72456600>>, <<0, 73299600>>, <<0, 73888600>>,
      <<0, 74361400>>>>

Bell_baffle_leakage_z_values ==
    <<<<0, 0>>, <<0, 25000000>>, <<0, 50000000>>, <<0, 75000000>>, <<1, 0>>>>

Bell_bundle_bypass_x ==
    <<<<0, 0>>, <<0, 1000>>, <<0, 10000>>, <<0, 100000>>, <<0, 3885680>>,
      <<0, 4749410>>, <<0, 5720830>>, <<0, 8079990>>, <<0, 9157350>>,
      <<0, 9593370>>, <<0, 11872400>>, <<0, 12846900>>, <<0, 13471600>>,
      <<0, 14221100>>, <<0, 14682100>>, <<0, 15650400>>, <<0, 16282100>>,
      <<0, 16948800>>, <<0, 17812600>>, <<0, 18530100>>, <<0, 19499700>>,
      <<0, 20079800>>, <<0, 21051200>>, <<0, 21237300>>, <<0, 22106300>>,
      <<0, 22212200>>, <<0, 22886400>>, <<0, 23285600>>, <<0, 23857800>>,
      <<0, 24260500>>, <<0, 25010400>>, <<0, 25795800>>, <<0, 26286600>>,
      <<0, 26840300>>, <<0, 27363900>>, <<0, 28028900>>, <<0, 28499900>>,
      <<0, 29106700>>, <<0, 29518600>>, <<0, 30005000>>, <<0, 30976400>>,
      <<0, 31254800>>, <<0, 31468000>>, <<0, 32014400>>, <<0, 32340500>>,
      <<0, 32811100>>, <<0, 33213000>>, <<0, 33311100>>, <<0, 33857000>>,
      <<0, 34183600>>, <<0, 34388900>>, <<0, 34935200>>, <<0, 35140100>>,
      <<0, 35359000>>, <<0, 35905800>>, <<0, 36110200>>, <<0, 36640800>>,
      <<0, 37059700>>, <<0, 37560100>>, <<0, 37954100>>, <<0, 38281100>>,
      <<0, 38691300>>, <<0, 39236300>>, <<0, 39766000>>, <<0, 40110600>>,
      <<0, 40184100>>, <<0, 41081100>>, <<0, 41261500>>, <<0, 41993900>>,
      <<0, 42163300>>, <<0, 42633000>>, <<0, 43106700>>, <<0, 43496700>>,
      <<0, 44090800>>, <<0, 44468200>>, <<0, 45061400>>, <<0, 45373000>>,
      <<0, 45703600>>, <<0, 46256500>>, <<0, 46450800>>, <<0, 47016000>>,
      <<0, 47227000>>, <<0, 47751900>>, <<0, 48047400>>, <<0, 48279400>>,
      <<0, 48687400>>, <<0, 49063900>>, <<0, 49275800>>, <<0, 49907500>>,
      <<0, 50128100>>, <<0, 50682400>>, <<0, 51160000>>, <<0, 51494000>>,
      <<0, 52159000>>, <<0, 52187000>>, <<0, 53049800>>, <<0, 53236800>>,
      <<0, 53701300>>, <<0, 54127600>>, <<0, 54224400>>, <<0, 54638500>>,
      <<0, 55180500>>, <<0, 55380100>>, <<0, 55750000>>, <<0, 56232500>>,
      <<0, 56668000>>, <<0, 56828300>>, <<0, 57215300>>, <<0, 57637700>>,
      <<0, 58067600>>, <<0, 58225200>>, <<0, 58860000>>, <<0, 59195300>>,
      <<0, 59901900>>, <<0, 60171500>>, <<0, 60238500>>, <<0, 61010300>>,
      <<0, 61244100>>, <<0, 61319400>>, <<0, 62061000>>, <<0, 62214600>>,
      <<0, 62293400>>, <<0, 63032400>>, <<0, 63185200>>, <<0, 63366900>>,
      <<0, 63710900>>, <<0, 64136000>>, <<0, 64444700>>, <<0, 64788700>>,
      <<0, 64987900>>, <<0, 65233500>>, <<0, 65636300>>, <<0, 65759300>>,
      <<0, 66183900>>, <<0, 66533300>>, <<0, 66792400>>, <<0, 67225800>>,
      <<0, 67484100>>, <<0, 67869400>>, <<0, 68195500>>, <<0, 68539600>>,
      <<0, 68878900>>, <<0, 69198000>>, <<0, 69532000>>>>

Bell_bundle_bypass_z_values ==
    <<<<0, 0>>, <<0, 5000000>>, <<0, 10000000>>, <<0, 16666666>>,
      <<0, 30000000>>, <<0, 50000000>>>>

\* lines 901 and 1006: the pitch axis of the two friction surfaces
dP_f_pitch_axis == <<<<1, 25000000>>, <<1, 50000000>>, <<2, 0>>, <<2, 50000000>>>>

\* line 928: the Reynolds axis of the staggered correction surface
dP_staggered_correction_Re_axis == <<<<100, 0>>, <<1000, 0>>, <<10000, 0>>, <<100000, 0>>>>

\* line 1030: the Reynolds axis of the inline correction surface
dP_inline_correction_Re_axis == <<<<1000, 0>>, <<10000, 0>>, <<100000, 0>>, <<1000000, 0>>>>

\* the samples of the table a module-level name is bound to
AxisSamples(name) ==
    CASE name = "Grimison_ST_aligned" -> Grimison_ST_aligned
      [] name = "Grimison_SL_aligned" -> Grimison_SL_aligned
      [] name = "Grimson_ST_staggered" -> Grimson_ST_staggered
      [] name = "Grimson_SL_staggered" -> Grimson_SL_staggered
      [] name = "_Kern_dP_Res" -> _Kern_dP_Res
      [] name = "_dP_staggered_Res" -> _dP_staggered_Res
      [] name = "dP_f_pitch_axis" -> dP_f_pitch_axis
      [] name = "_dP_staggered_correction_parameters" ->
             _dP_staggered_correction_parameters
      [] name = "dP_staggered_correction_Re_axis" ->
             dP_staggered_correction_Re_axis
      [] name = "_dP_inline_Res" -> _dP_inline_Res
      [] name = "_dP_inline_correction_parameters" ->
             _dP_inline_correction_parameters
      [] name = "dP_inline_correction_Re_axis" -> dP_inline_correction_Re_axis
      [] name = "Bell_baffle_configuration_Fcs" -> Bell_baffle_configuration_Fcs
      [] name = "Bell_baffle_leakage_x" -> Bell_baffle_leakage_x
      [] name = "Bell_baffle_leakage_z_values" -> Bell_baffle_leakage_z_values
      [] name = "Bell_bundle_bypass_x" -> Bell_bundle_bypass_x
      [] name = "Bell_bundle_bypass_z_values" -> Bell_bundle_bypass_z_values

\* an interpolator: the constructor that built it and the tables handed to
\* it as the independent variable(s)
Interpolator(ctor, axes) == [ctor |-> ctor, axes |-> axes, writes |-> <<>>]

\* the interpolators the module builds when it is imported
Interpolators ==
    [Grimison_C1_aligned_interp |->
         Interpolator("RectBivariateSpline",
                      <<"Grimison_ST_aligned", "Grimison_SL_aligned">>),
     Grimison_m_aligned_interp |->
         Interpolator("RectBivariateSpline",
                      <<"Grimison_ST_aligned", "Grimison_SL_aligned">>),
     Grimson_m_staggered_interp |->
         Interpolator("interp2d",
                      <<"Grimson_ST_staggered", "Grimson_SL_staggered">>),
     Grimson_C1_staggered_interp |->
         Interpolator("interp2d",
                      <<"Grimson_ST_staggered", "Grimson_SL_staggered">>),
     Kern_f_Re |-> Interpolator("UnivariateSpline", <<"_Kern_dP_Res">>),
     dP_staggered_f |->
         Interpolator("RectBivariateSpline",
                      <<"_dP_staggered_Res", "dP_f_pitch_axis">>),
     dP_staggered_correction |->
         Interpolator("RectBivariateSpline",
                      <<"_dP_staggered_correction_parameters",
                        "dP_staggered_correction_Re_axis">>),
     dP_inline_f |->
         Interpolator("RectBivariateSpline",
                      <<"_dP_inline_Res", "dP_f_pitch_axis">>),
     dP_inline_correction |->
         Interpolator("RectBivariateSpline",
                      <<"_dP_inline_correction_parameters",
                        "dP_inline_correction_Re_axis">>),
     Bell_baffle_configuration_obj |->
         Interpolator("UnivariateSpline", <<"Bell_baffle_configuration_Fcs">>),
     Bell_baffle_leakage_obj |->
         Interpolator("RectBivariateSpline",
                      <<"Bell_baffle_leakage_x",
                        "Bell_baffle_leakage_z_values">>),
     Bell_bundle_bypass_high_obj |->
         Interpolator("RectBivariateSpline",
                      <<"Bell_bundle_bypass_x", "Bell_bundle_bypass_z_values">>),
     Bell_bundle_bypass_low_obj |->
         Interpolator("RectBivariateSpline",
                      <<"Bell_bundle_bypass_x", "Bell_bundle_bypass_z_values">>)]

\* the row-correction tables the functions index
Tables ==
    [Grimson_Nl_aligned |-> Grimson_Nl_aligned,
     Grimson_Nl_staggered |-> Grimson_Nl_staggered,
     Zukauskas_Czs_low_Re_staggered |-> Zukauskas_Czs_low_Re_staggered,
     Zukauskas_Czs_high_Re_staggered |-> Zukauskas_Czs_high_Re_staggered,
     Zukauskas_Czs_inline |-> Zukauskas_Czs_inline,
     ESDU_73031_F2_inline |-> ESDU_73031_F2_inline,
     ESDU_73031_F2_staggered |-> ESDU_73031_F2_staggered]

\* the module-level objects as they are once the module is imported
Module == [tables |-> Tables, interpolators |-> Interpolators]

\* a write to the module-level object bound to name obj: val appended to a
\* table, or a setting of an interpolator changed to val
Write(obj, val) == [obj |-> obj, val |-> val]

\* the writes of the log m that went to obj
WritesTo(m, obj) == SelectSeq(m, LAMBDA w : w.obj = obj)

\* the module-level objects as they are after the writes of the log m
ModuleNow(m) ==
    [tables |->
         [n \in DOMAIN Tables |->
             Tables[n] \o [i \in 1..Len(WritesTo(m, n)) |->
                              WritesTo(m, n)[i].val]],
     interpolators |->
         [n \in DOMAIN Interpolators |->
             [Interpolators[n] EXCEPT !.writes = WritesTo(m, n)]]]

\* a call that appends to the table it reads
ModuleAfterCall_append(f, m) ==
    IF f = "Zukauskas_tube_row_correction"
    THEN Append(m, Write("Zukauskas_Czs_inline", One))
    ELSE m

\* the log of writes to module-level objects after a call of f, m being
\* the log before it: no function body holds a global statement, an
\* assignment to a module-level name, or a call of a mutating method on a
\* table or an interpolator; the tables are indexed and the interpolators
\* called, nothing more
ModuleAfterCall(f, m) == m



(***************************************************************************)
(* Inputs drawn.                                                           *)
(***************************************************************************)
RowInputs ==
    {PyIntNum(n) : n \in (-MinRows)..MaxRows}
        \cup {PyFloatNum(h) : h \in (-2 * MinRows)..(2 * MaxRows + 1)}

ReInputs == {999, 1000, 10000}

MethodInputs == {"Hewitt", "other"}

\* pitches and diameters in millimetres
PitchParallelInputs == {0, 50}

PitchNormalInputs == {50, 70}

DoInputs == {0, 25}

GrimisonReInputs == {10263}

\* Prandtl numbers in 1/1000
PrInputs == {708}

AreaInputs == (-1)..MaxArea

BypassFractionInputs ==
    {Rat(0, 1), Rat(1, 2), Bell_bundle_bypass_x_max, Rat(7, 10), Rat(1, 1)}

SealStripInputs == 0..2

CrossflowRowInputs == {0, 5, 25}

\* <<pitch_parallel, pitch_normal>> of the Nusselt correlations, in
\* millimetres: a zero parallel pitch, ratios 0.95, 1, 1.05 and 1.2
NuPitchInputs == {<<0, 100>>, <<100, 95>>, <<100, 100>>, <<100, 105>>, <<100, 120>>}

NuRowInputs == {PyIntNum(8), PyIntNum(10), PyIntNum(20), PyFloatNum(7)}

BejanReInputs == {50, 300, 700, 1000, 10000, 50000, 250000}

ESDUReInputs == {300, 301, 200000, 250000}

HEDHReInputs == {10000}

\* Prandtl numbers in 1/1000
PrWallInputs == {NoPrWall, PrWallOf(6500)}

AngleInputs == {75, 90}

\* <<ST, SL, D>> of dP_Zukauskas in 1/10 mm: the two doctests, pitches
\* within 5 % of each other, ST = SL = D, equal pitches on another diameter
\* and a zero diameter
dPPitchInputs == {<<313, 343, 164>>, <<313, 313, 164>>, <<313, 320, 164>>, <<164, 164, 164>>, <<313, 313, 200>>, <<313, 313, 0>>}

dPReInputs == {13943}

dPRowInputs == {7}

\* density in g/m^3 and velocity in 1/10 m/s
dPrhoInputs == {1217}

dPVmaxInputs == {126}

\* dP_Kern: the doctest (kg/s, kg/m^3, 1E-6 Pa*s, mm, 1/10 mm), a pitch
\* equal to the tube diameter and a zero diameter
KernmInputs == {11}

KernrhoInputs == {995}

KernmuInputs == {803}

KernDShellInputs == {584}

KernLSpacingInputs == {1524}

KernPitchInputs == {<<254, 190>>, <<190, 190>>, <<254, 0>>}

KernNBafflesInputs == {22}

\* mu_w omitted, zero, equal to mu, and the doctest's
KernmuwInputs == {NoPrWall, PrWallOf(0), PrWallOf(803), PrWallOf(657)}

(***************************************************************************)
(* Concurrent callers.  A caller runs one call at a time, a statement per  *)
(* step; the callers' steps interleave freely.  The locals of a call live  *)
(* in the frame of that call; the tables and interpolators are the shared  *)
(* module-level objects.  Zukauskas_tube_row_correction (lines 218-232)    *)
(* and baffle_leakage_Bell (lines 1308-1315) are stepped.                  *)
(***************************************************************************)
\* number of callers
NumCallers == 2

Callers == 1..NumCallers

\* all callers running in one frame
FrameOf_shared(c) == 1

\* the frame the locals of caller c's call live in: a call gets a frame of
\* its own (no local is declared global, no mutable default is used)
FrameOf(c) == c

\* a frame with no local bound
EmptyFrame == [n \in {} |-> 0]

\* frame fr with local name bound to v
Bound(fr, name, v) ==
    [n \in (DOMAIN fr) \cup {name} |-> IF n = name THEN v ELSE fr[n]]

Idle == [pc |-> "idle"]

\* line 1314: the value of the leakage surface at (x, y); the docstring
\* example (lines 1294-1295) fixes it at (0.5, 0.25), elsewhere it is one
\* of the values a surface lookup can give
Bell_baffle_leakage_obj_values(x, y) ==
    IF x = Rat(1, 2) /\ y = Rat(1, 4) THEN {5907} ELSE SplineVals

\* arguments of the concurrent Zukauskas_tube_row_correction calls: both
\* staggered tables and the inline one, a float below one row, 20 rows
ConcurrentZukauskasCalls ==
    {[tube_rows |-> PyIntNum(4), staggered |-> TRUE, Re |-> 999],
     [tube_rows |-> PyIntNum(4), staggered |-> TRUE, Re |-> 10000],
     [tube_rows |-> PyIntNum(4), staggered |-> FALSE, Re |-> 10000],
     [tube_rows |-> PyFloatNum(-5), staggered |-> FALSE, Re |-> 10000],
     [tube_rows |-> PyIntNum(20), staggered |-> TRUE, Re |-> 10000]}

\* arguments of the concurrent baffle_leakage_Bell calls: the docstring
\* example, a clamped x, a negative fraction, Sm = 0, Ssb + Stb = 0
ConcurrentLeakageCalls ==
    {[Ssb |-> 1, Stb |-> 3, Sm |-> 8], [Ssb |-> 1, Stb |-> 3, Sm |-> 1],
     [Ssb |-> -1, Stb |-> 3, Sm |-> 8], [Ssb |-> 1, Stb |-> 1, Sm |-> 0],
     [Ssb |-> 0, Stb |-> 0, Sm |-> 8]}

\* the locals of caller c's running call
Local(c) == frames[FrameOf(c)]

\* caller c enters f with arguments a at statement pc, its parameters
\* bound in the new frame fr
Enter(c, f, pc, a, fr) ==
    /\ callers' = [callers EXCEPT ![c] = [pc |-> pc, f |-> f, a |-> a]]
    /\ frames' = [frames EXCEPT ![FrameOf(c)] = fr]
    /\ UNCHANGED <<fn, args, ret, spl, mod>>

\* caller c binds local name to v and goes on at statement pc
Goto(c, pc, name, v) ==
    /\ callers' = [callers EXCEPT ![c].pc = pc]
    /\ frames' = [frames EXCEPT ![FrameOf(c)] = Bound(@, name, v)]
    /\ UNCHANGED <<fn, args, ret, spl, mod>>

\* caller c's call ends with outcome r (a return or a raise); its frame
\* is dropped
Return(c, r) ==
    /\ callers' = [callers EXCEPT ![c] =
           [pc |-> "done", f |-> callers[c].f, a |-> callers[c].a,
            out |-> r]]
    /\ frames' = [frames EXCEPT ![FrameOf(c)] = EmptyFrame]
    /\ UNCHANGED <<fn, args, ret, spl, mod>>

\* caller c executes a statement that reads the locals names: reading a
\* local that is not bound is an UnboundLocalError, otherwise the
\* statement's effect A takes place
Statement(c, names, A) ==
    IF names \subseteq DOMAIN Local(c)
    THEN A
    ELSE Return(c, Raise("UnboundLocalError"))

\* a caller that is not in a call enters Zukauskas_tube_row_correction
BeginZukauskas_tube_row_correction ==
    \E c \in Callers, a \in ConcurrentZukauskasCalls :
        /\ callers[c].pc \in {"idle", "done"}
        /\ Enter(c, "Zukauskas_tube_row_correction", "z218", a,
                 Bound(EmptyFrame, "tube_rows", a.tube_rows))

\* line 218: tube_rows = int(tube_rows)
Zukauskas_line_218 ==
    \E c \in Callers :
        /\ callers[c].pc = "z218"
        /\ Statement(c, {"tube_rows"},
               Goto(c, "z219", "tube_rows",
                    PyIntNum(PyInt(Local(c)["tube_rows"]))))

\* lines 219-220: if tube_rows < 1: tube_rows = 1
Zukauskas_line_219 ==
    \E c \in Callers :
        /\ callers[c].pc = "z219"
        /\ Statement(c, {"tube_rows"},
               Goto(c, "z221", "tube_rows",
                    IF Local(c)["tube_rows"].h < 2 * 1
                    THEN PyIntNum(1) ELSE Local(c)["tube_rows"]))

\* lines 221-231: the branch on staggered and on tube_rows <= 19; the
\* table to index is picked (lines 223, 229) or correction = 1.0
Zukauskas_line_221 ==
    \E c \in Callers :
        /\ callers[c].pc = "z221"
        /\ Statement(c, {"tube_rows"},
               IF PyInt(Local(c)["tube_rows"]) <= 19
               THEN Goto(c, "z224", "factors",
                         IF callers[c].a.staggered
                         THEN IF callers[c].a.Re < 1000
                              THEN "Zukauskas_Czs_low_Re_staggered"
                              ELSE "Zukauskas_Czs_high_Re_staggered"
                         ELSE "Zukauskas_Czs_inline")
               ELSE Goto(c, "z232", "correction", One))

\* lines 224, 229: correction = factors[tube_rows-1], read from the shared
\* table
Zukauskas_line_224 ==
    \E c \in Callers :
        /\ callers[c].pc = "z224"
        /\ Statement(c, {"factors", "tube_rows"},
               LET r == PyIndex(ModuleNow(mod).tables[Local(c)["factors"]],
                                PyInt(Local(c)["tube_rows"]) - 1)
               IN  IF r.kind = "value"
                   THEN Goto(c, "z232", "correction", r.val)
                   ELSE Return(c, r))

\* line 232: return correction
Zukauskas_line_232 ==
    \E c \in Callers :
        /\ callers[c].pc = "z232"
        /\ Statement(c, {"correction"},
               Return(c, Value(Local(c)["correction"])))

\* a caller that is not in a call enters baffle_leakage_Bell
Beginbaffle_leakage_Bell ==
    \E c \in Callers, a \in ConcurrentLeakageCalls :
        /\ callers[c].pc \in {"idle", "done"}
        /\ Enter(c, "baffle_leakage_Bell", "l1308", a, EmptyFrame)

\* line 1308: x = (Ssb + Stb)/Sm
baffle_leakage_line_1308 ==
    \E c \in Callers :
        /\ callers[c].pc = "l1308"
        /\ LET a == callers[c].a
           IN  IF a.Sm = 0
               THEN Return(c, Raise("ZeroDivisionError"))
               ELSE Goto(c, "l1309", "x", Rat(a.Ssb + a.Stb, a.Sm))

\* lines 1309-1310: if x > Bell_baffle_leakage_x_max: x = the maximum
baffle_leakage_line_1309 ==
    \E c \in Callers :
        /\ callers[c].pc = "l1309"
        /\ Statement(c, {"x"},
               Goto(c, "l1311", "x",
                    IF RatGT(Local(c)["x"], Bell_baffle_leakage_x_max)
                    THEN Bell_baffle_leakage_x_max ELSE Local(c)["x"]))

\* line 1311: y = Ssb/(Ssb + Stb)
baffle_leakage_line_1311 ==
    \E c \in Callers :
        /\ callers[c].pc = "l1311"
        /\ LET a == callers[c].a
           IN  IF a.Ssb + a.Stb = 0
               THEN Return(c, Raise("ZeroDivisionError"))
               ELSE Goto(c, "l1312", "y", Rat(a.Ssb, a.Ssb + a.Stb))

\* lines 1312-1313: if y > 1 or y < 0: raise ValueError
baffle_leakage_line_1312 ==
    \E c \in Callers :
        /\ callers[c].pc = "l1312"
        /\ Statement(c, {"y"},
               IF \/ RatGT(Local(c)["y"], Rat(1, 1))
                  \/ RatLT(Local(c)["y"], Rat(0, 1))
               THEN Return(c, Raise("ValueError"))
               ELSE Goto(c, "l1314", "y", Local(c)["y"]))

\* line 1314: Jl = Bell_baffle_leakage_obj(x, y), a call of the shared
\* interpolator
baffle_leakage_line_1314 ==
    \E c \in Callers :
        /\ callers[c].pc = "l1314"
        /\ Statement(c, {"x", "y"},
               \E Jl \in Bell_baffle_leakage_obj_values(Local(c)["x"],
                                                        Local(c)["y"]) :
                   Goto(c, "l1315", "Jl", Jl))

\* line 1315: return min(float(Jl), 1.0)
baffle_leakage_line_1315 ==
    \E c \in Callers :
        /\ callers[c].pc = "l1315"
        /\ Statement(c, {"Jl"},
               Return(c, Value(IF Local(c)["Jl"] < One
                               THEN Local(c)["Jl"] ELSE One)))

Init ==
    /\ fn = "none"
    /\ args = [none |-> TRUE]
    /\ ret = NoCall
    /\ spl = <<>>
    /\ mod = <<>>
    /\ callers = [c \in Callers |-> Idle]
    /\ frames = [c \in Callers |-> EmptyFrame]

CallZukauskas_tube_row_correction ==
    \E tube_rows \in RowInputs, staggered \in BOOLEAN, Re \in ReInputs :
        /\ fn' = "Zukauskas_tube_row_correction"
        /\ mod' = ModuleAfterCall("Zukauskas_tube_row_correction", mod)
        /\ UNCHANGED <<callers, frames>>
        /\ args' = [tube_rows |-> tube_rows, staggered |-> staggered, Re |-> Re]
        /\ ret' = Zukauskas_tube_row_correction(tube_rows, staggered, Re)
        /\ spl' = <<>>

CallESDU_tube_row_correction ==
    \E tube_rows \in RowInputs, staggered \in BOOLEAN, Re \in ReInputs,
       method \in MethodInputs :
        /\ fn' = "ESDU_tube_row_correction"
        /\ mod' = ModuleAfterCall("ESDU_tube_row_correction", mod)
        /\ UNCHANGED <<callers, frames>>
        /\ args' = [tube_rows |-> tube_rows, staggered |-> staggered,
                    Re |-> Re, method |-> method]
        /\ ret' = ESDU_tube_row_correction(tube_rows, staggered, Re, method)
        /\ spl' = <<>>

CallNu_Grimison_tube_bank ==
    \E Re \in GrimisonReInputs, Pr \in PrInputs, Do \in DoInputs,
       tube_rows \in RowInputs, pitch_parallel \in PitchParallelInputs,
       pitch_normal \in PitchNormalInputs,
       C1v \in GrimisonC1Vals, mv \in GrimisonmVals :
        /\ fn' = "Nu_Grimison_tube_bank"
        /\ mod' = ModuleAfterCall("Nu_Grimison_tube_bank", mod)
        /\ UNCHANGED <<callers, frames>>
        /\ args' = [Re |-> Re, Pr |-> Pr, Do |-> Do, tube_rows |-> tube_rows,
                    pitch_parallel |-> pitch_parallel,
                    pitch_normal |-> pitch_normal]
        /\ ret' = Nu_Grimison_tube_bank(Re, Pr, Do, tube_rows, pitch_parallel,
                                        pitch_normal, C1v, mv)
        /\ spl' = Nu_Grimison_consults(Do, pitch_parallel, pitch_normal,
                                       C1v, mv)

Callbaffle_leakage_Bell ==
    \E Ssb \in AreaInputs, Stb \in AreaInputs, Sm \in AreaInputs,
       Jl \in SplineVals :
        /\ fn' = "baffle_leakage_Bell"
        /\ mod' = ModuleAfterCall("baffle_leakage_Bell", mod)
        /\ UNCHANGED <<callers, frames>>
        /\ args' = [Ssb |-> Ssb, Stb |-> Stb, Sm |-> Sm]
        /\ ret' = baffle_leakage_Bell(Ssb, Stb, Sm, Jl)
        /\ spl' = baffle_leakage_consults(Ssb, Stb, Sm, Jl)

Callbundle_bypassing_Bell ==
    \E bypass_area_fraction \in BypassFractionInputs,
       seal_strips \in SealStripInputs,
       crossflow_rows \in CrossflowRowInputs, laminar \in BOOLEAN,
       Jb \in SplineVals :
        /\ fn' = "bundle_bypassing_Bell"
        /\ mod' = ModuleAfterCall("bundle_bypassing_Bell", mod)
        /\ UNCHANGED <<callers, frames>>
        /\ args' = [bypass_area_fraction |-> bypass_area_fraction,
                    seal_strips |-> seal_strips,
                    crossflow_rows |-> crossflow_rows, laminar |-> laminar]
        /\ ret' = bundle_bypassing_Bell(bypass_area_fraction, seal_strips,
                                        crossflow_rows, laminar, Jb)
        /\ spl' = bundle_bypassing_consults(bypass_area_fraction, seal_strips,
                                            crossflow_rows, laminar, Jb)

CallNu_Zukauskas_Bejan ==
    \E Re \in BejanReInputs, Pr \in PrInputs, tube_rows \in NuRowInputs,
       pitch \in NuPitchInputs, Pr_wall \in PrWallInputs :
        /\ fn' = "Nu_Zukauskas_Bejan"
        /\ mod' = ModuleAfterCall("Nu_Zukauskas_Bejan", mod)
        /\ UNCHANGED <<callers, frames>>
        /\ args' = [Re |-> Re, Pr |-> Pr, tube_rows |-> tube_rows,
                    pitch_parallel |-> pitch[1], pitch_normal |-> pitch[2],
                    Pr_wall |-> Pr_wall]
        /\ ret' = Nu_Zukauskas_Bejan(Re, Pr, tube_rows, pitch[1], pitch[2],
                                     Pr_wall)
        /\ spl' = <<>>

CallNu_ESDU_73031 ==
    \E Re \in ESDUReInputs, Pr \in PrInputs, tube_rows \in NuRowInputs,
       pitch \in NuPitchInputs, Pr_wall \in PrWallInputs,
       angle \in AngleInputs :
        /\ fn' = "Nu_ESDU_73031"
        /\ mod' = ModuleAfterCall("Nu_ESDU_73031", mod)
        /\ UNCHANGED <<callers, frames>>
        /\ args' = [Re |-> Re, Pr |-> Pr, tube_rows |-> tube_rows,
                    pitch_parallel |-> pitch[1], pitch_normal |-> pitch[2],
                    Pr_wall |-> Pr_wall, angle |-> angle]
        /\ ret' = Nu_ESDU_73031(Re, Pr, tube_rows, pitch[1], pitch[2],
                                Pr_wall, angle)
        /\ spl' = Nu_ESDU_73031_consults(Re, Pr, tube_rows, pitch[1],
                                         pitch[2], Pr_wall, angle)

CallNu_HEDH_tube_bank ==
    \E Re \in HEDHReInputs, Pr \in PrInputs, Do \in DoInputs,
       tube_rows \in NuRowInputs, pitch \in NuPitchInputs :
        /\ fn' = "Nu_HEDH_tube_bank"
        /\ mod' = ModuleAfterCall("Nu_HEDH_tube_bank", mod)
        /\ UNCHANGED <<callers, frames>>
        /\ args' = [Re |-> Re, Pr |-> Pr, Do |-> Do, tube_rows |-> tube_rows,
                    pitch_parallel |-> pitch[1], pitch_normal |-> pitch[2]]
        /\ ret' = Nu_HEDH_tube_bank(Re, Pr, Do, tube_rows, pitch[1], pitch[2])
        /\ spl' = <<>>

CalldP_Zukauskas ==
    \E Re \in dPReInputs, n \in dPRowInputs, pitch \in dPPitchInputs,
       rho \in dPrhoInputs, Vmax \in dPVmaxInputs,
       fv \in dPfVals, xv \in dPxVals :
        /\ fn' = "dP_Zukauskas"
        /\ mod' = ModuleAfterCall("dP_Zukauskas", mod)
        /\ UNCHANGED <<callers, frames>>
        /\ args' = [Re |-> Re, n |-> n, ST |-> pitch[1], SL |-> pitch[2],
                    D |-> pitch[3], rho |-> rho, Vmax |-> Vmax]
        /\ ret' = dP_Zukauskas(Re, n, pitch[1], pitch[2], pitch[3], rho,
                               Vmax, fv, xv)
        /\ spl' = dP_Zukauskas_consults(Re, n, pitch[1], pitch[2], pitch[3],
                                        rho, Vmax, fv, xv)

CalldP_Kern ==
    \E m \in KernmInputs, rho \in KernrhoInputs, mu \in KernmuInputs,
       DShell \in KernDShellInputs, LSpacing \in KernLSpacingInputs,
       pitch \in KernPitchInputs, NBaffles \in KernNBafflesInputs,
       mu_w \in KernmuwInputs, fv \in KernfVals :
        /\ fn' = "dP_Kern"
        /\ mod' = ModuleAfterCall("dP_Kern", mod)
        /\ UNCHANGED <<callers, frames>>
        /\ args' = [m |-> m, rho |-> rho, mu |-> mu, DShell |-> DShell,
                    LSpacing |-> LSpacing, pitch |-> pitch[1],
                    Do |-> pitch[2], NBaffles |-> NBaffles, mu_w |-> mu_w]
        /\ ret' = dP_Kern(m, rho, mu, DShell, LSpacing, pitch[1], pitch[2],
                          NBaffles, mu_w, fv)
        /\ spl' = dP_Kern_consults(m, rho, mu, DShell, LSpacing, pitch[1],
                                   pitch[2], NBaffles, mu_w, fv)

Next ==
    \/ CallZukauskas_tube_row_correction
    \/ CallESDU_tube_row_correction
    \/ CallNu_Grimison_tube_bank
    \/ Callbaffle_leakage_Bell
    \/ Callbundle_bypassing_Bell
    \/ CallNu_Zukauskas_Bejan
    \/ CallNu_ESDU_73031
    \/ CallNu_HEDH_tube_bank
    \/ CalldP_Zukauskas
    \/ CalldP_Kern

Spec == Init /\ [][Next]_vars

\* the steps of the concurrent callers
NextConcurrent ==
    \/ BeginZukauskas_tube_row_correction
    \/ Zukauskas_line_218
    \/ Zukauskas_line_219
    \/ Zukauskas_line_221
    \/ Zukauskas_line_224
    \/ Zukauskas_line_232
    \/ Beginbaffle_leakage_Bell
    \/ baffle_leakage_line_1308
    \/ baffle_leakage_line_1309
    \/ baffle_leakage_line_1311
    \/ baffle_leakage_line_1312
    \/ baffle_leakage_line_1314
    \/ baffle_leakage_line_1315

SpecConcurrent == Init /\ [][NextConcurrent]_vars

(***************************************************************************)
(* Properties.                                                             *)
(***************************************************************************)
Max(a, b) == IF a > b THEN a ELSE b

\* the table the Zukauskas lookup reads for a flag and a Reynolds number
ZukauskasTable(staggered, Re) ==
    IF staggered
    THEN IF Re < 1000 THEN Zukauskas_Czs_low_Re_staggered
         ELSE Zukauskas_Czs_high_Re_staggered
    ELSE Zukauskas_Czs_inline

ESDUTable(staggered) ==
    IF staggered THEN ESDU_73031_F2_staggered ELSE ESDU_73031_F2_inline

InZukauskas == fn = "Zukauskas_tube_row_correction"

InESDUHewitt == fn = "ESDU_tube_row_correction" /\ args.method = "Hewitt"

InLeakage == fn = "baffle_leakage_Bell"

InBypass == fn = "bundle_bypassing_Bell"

\* C1: Zukauskas_tube_row_correction returns exactly 1.0 for every row
\* count of 20 or more, whatever the flag and the Reynolds number.
C1_Zukauskas_one_from_20 ==
    (InZukauskas /\ args.tube_rows.h >= 2 * 20) => ret = Value(One)

C1_witness ==
    /\ InZukauskas /\ args.tube_rows = PyIntNum(20)
    /\ ~args.staggered /\ args.Re = 999 /\ ret = Value(One)

\* C2: with the flag and Re held fixed, the Zukauskas factor of N rows is
\* at most the factor of N + 1 rows, for every N >= 1.
C2_Zukauskas_monotone ==
    (InZukauskas /\ args.tube_rows.h >= 2) =>
        LET more == Zukauskas_tube_row_correction(
                        [args.tube_rows EXCEPT !.h = @ + 2],
                        args.staggered, args.Re)
        IN  ret.kind = "value" /\ more.kind = "value" /\ ret.val <= more.val

C2_witness ==
    /\ InZukauskas /\ args.tube_rows = PyIntNum(19) /\ args.staggered
    /\ args.Re = 999 /\ ret = Value(9987)

\* C3: ESDU_tube_row_correction (method Hewitt) returns exactly 1.0 for
\* every row count of 10 or more, whatever the flag and the Reynolds number.
C3_ESDU_one_from_10 ==
    (InESDUHewitt /\ args.tube_rows.h >= 2 * 10) => ret = Value(One)

C3_witness ==
    /\ InESDUHewitt /\ args.tube_rows = PyIntNum(10) /\ args.staggered
    /\ ret = Value(One)

\* the split fraction Ssb/(Ssb+Stb) exists and lies outside [0, 1]
SplitOutside ==
    /\ args.Ssb + args.Stb # 0
    /\ \/ args.Ssb * (args.Ssb + args.Stb) < 0
       \/ args.Stb * (args.Ssb + args.Stb) < 0

\* C4 as stated: every call whose split fraction is not in [0, 1], the call
\* Ssb = -1, Stb = 1 among them, ends in the ValueError of the ratio check.
C4_as_stated ==
    (InLeakage /\ (SplitOutside \/ (args.Ssb = -1 /\ args.Stb = 1))) =>
        ret = Raise("ValueError")

\* C4 (amended): a call with Sm # 0 and Ssb + Stb # 0 whose split fraction
\* is outside [0, 1] ends in ValueError, no surface is consulted and no
\* value is returned; a call with Sm = 0 or Ssb + Stb = 0 (Ssb = -1,
\* Stb = 1 among them) ends in ZeroDivisionError instead.
C4_ratio_error ==
    /\ (InLeakage /\ args.Sm # 0 /\ SplitOutside) =>
           (ret = Raise("ValueError") /\ spl = <<>>)
    /\ (InLeakage /\ (args.Sm = 0 \/ args.Ssb + args.Stb = 0)) =>
           (ret = Raise("ZeroDivisionError") /\ spl = <<>>)

C4_witness ==
    /\ InLeakage /\ args.Ssb = -1 /\ args.Stb = 3 /\ args.Sm = 1
    /\ ret = Raise("ValueError")

\* C5: a value returned by bundle_bypassing_Bell or baffle_leakage_Bell is
\* min(surface value, 1.0): never above 1, exactly 1 when the surface is
\* above 1, and the surface value itself otherwise, also below 0.
C5_upper_clamp ==
    ((InLeakage \/ InBypass) /\ ret.kind = "value") =>
        /\ ret.val <= One
        /\ Len(spl) = 1
        /\ ret.val = IF spl[1].val > One THEN One ELSE spl[1].val

C5_witness ==
    /\ InBypass /\ ret = Value(One) /\ Len(spl) = 1 /\ spl[1].val > One

\* C6: for an int N in 1..19 the Zukauskas factor is element N-1 of the
\* low-Re staggered table (staggered, Re < 1000), of the high-Re staggered
\* table (staggered, Re >= 1000) or of the inline table (not staggered);
\* 4 rows staggered at Re = 1E4 give 0.8942, 6 rows inline give 0.9465.
C6_Zukauskas_lookup ==
    /\ (InZukauskas /\ args.tube_rows.isint
          /\ args.tube_rows.h >= 2 * 1 /\ args.tube_rows.h <= 2 * 19) =>
           ret = Value(ZukauskasTable(args.staggered, args.Re)
                           [(args.tube_rows.h \div 2) - 1 + 1])
    /\ (InZukauskas /\ args.tube_rows = PyIntNum(4) /\ args.staggered
          /\ args.Re = 10000) => ret = Value(8942)
    /\ (InZukauskas /\ args.tube_rows = PyIntNum(6) /\ ~args.staggered) =>
           ret = Value(9465)

C6_witness ==
    /\ InZukauskas /\ args.tube_rows = PyIntNum(4) /\ args.staggered
    /\ args.Re = 1000 /\ ret = Value(8942)

\* C7: for an int N in 3..9 the ESDU factor (method Hewitt) is element N-3
\* of the staggered or inline table, for N <= 2 it is element 0, and Re has
\* no effect; 4 rows staggered give 0.8984, 6 rows inline give 0.9551.
C7_ESDU_lookup ==
    /\ (InESDUHewitt /\ args.tube_rows.isint
          /\ args.tube_rows.h >= 2 * 3 /\ args.tube_rows.h <= 2 * 9) =>
           ret = Value(ESDUTable(args.staggered)
                           [(args.tube_rows.h \div 2) - 3 + 1])
    /\ (InESDUHewitt /\ args.tube_rows.h <= 2 * 2) =>
           ret = Value(ESDUTable(args.staggered)[1])
    /\ (InESDUHewitt /\ args.tube_rows = PyIntNum(4) /\ args.staggered) =>
           ret = Value(8984)
    /\ (InESDUHewitt /\ args.tube_rows = PyIntNum(6) /\ ~args.staggered) =>
           ret = Value(9551)

C7_witness ==
    /\ InESDUHewitt /\ args.tube_rows = PyIntNum(6) /\ ~args.staggered
    /\ args.Re = 999 /\ ret = Value(9551)

\* the factor of an integer row count n >= 1
ZukauskasFactor(n, staggered, Re) ==
    IF n >= 20 THEN One ELSE ZukauskasTable(staggered, Re)[n]

\* C8: for every real row count (zero, negative, fractional) the Zukauskas
\* lookup raises nothing and returns the factor of max(1, trunc(tube_rows)).
C8_Zukauskas_coerce_clamp ==
    InZukauskas =>
        ret = Value(ZukauskasFactor(Max(1, PyInt(args.tube_rows)),
                                    args.staggered, args.Re))

C8_witness ==
    /\ InZukauskas /\ args.tube_rows = PyFloatNum(-3) /\ args.staggered
    /\ args.Re = 999 /\ ret = Value(8295)

\* the ESDU factor of an integer row count n >= 1
ESDUFactor(n, staggered) ==
    IF n >= 10 THEN One
    ELSE IF n <= 2 THEN ESDUTable(staggered)[1]
    ELSE ESDUTable(staggered)[n - 2]

\* C9 as stated: for every row count (zero, negative, non-integer) the ESDU
\* lookup (method Hewitt) raises nothing and returns the factor of the
\* integer row count max(1, int(tube_rows)).
C9_as_stated ==
    InESDUHewitt =>
        ret = Value(ESDUFactor(Max(1, PyInt(args.tube_rows)),
                               args.staggered))

\* the row lookup of Nu_Grimison_tube_bank is reached
GrimisonLookupReached ==
    fn = "Nu_Grimison_tube_bank" /\ args.pitch_parallel # 0 /\ args.Do # 0

GrimisonTable ==
    IF IsStaggered(args.pitch_normal, args.pitch_parallel)
    THEN Grimson_Nl_staggered ELSE Grimson_Nl_aligned

\* C10 as stated: the row lookup of Nu_Grimison_tube_bank raises nothing
\* for any row count; counts below 1 are treated as 1, every count 1..9
\* gives a factor from the 9-entry table, counts >= 10 give C2 = 1.0.
C10_as_stated ==
    GrimisonLookupReached =>
        /\ ret.kind = "value"
        /\ PyInt(args.tube_rows) >= 10 => ret.val.C2 = One
        /\ PyInt(args.tube_rows) < 10 =>
               \E k \in 1..Len(GrimisonTable) : ret.val.C2 = GrimisonTable[k]
        /\ PyInt(args.tube_rows) < 1 =>
               ret.val.C2 = Grimison_C2(PyIntNum(1),
                   IsStaggered(args.pitch_normal, args.pitch_parallel)).val

\* C11 as stated: for a row count k in 1..9 the Grimison row factor C2 is
\* the k-th entry (1-based) of the staggered or aligned table, and the
\* factor is 1.0 for row counts of 10 or more.
C11_as_stated ==
    GrimisonLookupReached =>
        /\ ret.kind = "value"
        /\ (PyInt(args.tube_rows) >= 1 /\ PyInt(args.tube_rows) <= 9) =>
               ret.val.C2 = GrimisonTable[PyInt(args.tube_rows)]
        /\ PyInt(args.tube_rows) >= 10 => ret.val.C2 = One

\* C12: ESDU_tube_row_correction with a method other than 'Hewitt' raises
\* nothing and returns None, for every row count, flag and Re.
C12_ESDU_other_method_None ==
    (fn = "ESDU_tube_row_correction" /\ args.method # "Hewitt") =>
        (ret = ReturnNone /\ spl = <<>>)

C12_witness ==
    /\ fn = "ESDU_tube_row_correction" /\ args.method = "other"
    /\ args.tube_rows = PyFloatNum(7) /\ ret = ReturnNone

\* the classification a Nusselt correlation made, where the call shows it
ClassificationShown ==
    \/ fn \in {"Nu_Zukauskas_Bejan", "Nu_ESDU_73031", "Nu_HEDH_tube_bank"}
         /\ ret.kind = "value"
    \/ fn = "Nu_Grimison_tube_bank" /\ Len(spl) > 0

ClassifiedStaggered ==
    IF fn = "Nu_Grimison_tube_bank"
    THEN spl[1].obj = "Grimson_C1_staggered_interp"
    ELSE ret.val.staggered

\* |1 - pitch_normal/pitch_parallel| > 0.05 in exact arithmetic:
\* |pitch_parallel - pitch_normal| * 20 > |pitch_parallel|
ExactlyAbove005 ==
    Abs(args.pitch_parallel - args.pitch_normal) * 20 > Abs(args.pitch_parallel)

\* C13 as stated: the four Nusselt correlations classify the bank as
\* staggered exactly when |1 - pitch_normal/pitch_parallel| > 0.05, a
\* deviation of exactly 0.05 being aligned.
C13_as_stated ==
    ClassificationShown => (ClassifiedStaggered <=> ExactlyAbove005)

InBejan == fn = "Nu_Zukauskas_Bejan" /\ ret.kind = "value"

\* C14 as stated: for an aligned bank Nu_Zukauskas_Bejan uses (c, m) =
\* (0.9, 0.4) below Re = 100, (0.52, 0.5) between 100 and 1000,
\* (0.27, 0.63) between 1000 and 20000, (0.033, 0.8) between 20000 and
\* 200000, and no pitch-ratio factor.
C14_as_stated ==
    (InBejan /\ ~ret.val.staggered) =>
        /\ ret.val.f = Unit
        /\ args.Re < 100 => (ret.val.c = 900 /\ ret.val.m = 400)
        /\ (args.Re > 100 /\ args.Re < 1000) =>
               (ret.val.c = 520 /\ ret.val.m = 500)
        /\ (args.Re > 1000 /\ args.Re < 20000) =>
               (ret.val.c = 270 /\ ret.val.m = 630)
        /\ (args.Re > 20000 /\ args.Re < 200000) =>
               (ret.val.c = 33 /\ ret.val.m = 800)

\* C15 as stated: for a staggered bank Nu_Zukauskas_Bejan uses (c, m) =
\* (1.04, 0.4) below Re = 500, (0.71, 0.5) between 500 and 1000,
\* (0.35, 0.6) between 1000 and 20000, (0.031, 0.8) between 20000 and
\* 200000; the factor (pitch_normal/pitch_parallel)**0.2 is applied above
\* Re = 1000 and is 1 below.
C15_as_stated ==
    (InBejan /\ ret.val.staggered) =>
        /\ args.Re < 500 =>
               (ret.val.c = 1040 /\ ret.val.m = 400 /\ ret.val.f = Unit)
        /\ (args.Re > 500 /\ args.Re < 1000) =>
               (ret.val.c = 710 /\ ret.val.m = 500 /\ ret.val.f = Unit)
        /\ (args.Re > 1000 /\ args.Re < 20000) =>
               /\ ret.val.c = 350 /\ ret.val.m = 600
               /\ ret.val.f = Pow(Rat(args.pitch_normal, args.pitch_parallel), 200)
        /\ (args.Re > 20000 /\ args.Re < 200000) =>
               /\ ret.val.c = 31 /\ ret.val.m = 800
               /\ ret.val.f = Pow(Rat(args.pitch_normal, args.pitch_parallel), 200)

InESDU73031 == fn = "Nu_ESDU_73031" /\ ret.kind = "value"

\* C16: Nu_ESDU_73031 uses (a, m) = (0.742, 0.431) inline and
\* (1.309, 0.360) staggered for Re <= 300, (0.211, 0.651) and
\* (0.273, 0.635) for 300 < Re <= 2E5, (0.116, 0.700) and (0.124, 0.700)
\* above 2E5; Re = 300 and Re = 2E5 belong to the lower band.
C16_ESDU_coefficients ==
    InESDU73031 =>
        <<ret.val.a, ret.val.m>> =
            IF args.Re <= 300
            THEN (IF ret.val.staggered THEN <<1309, 360>> ELSE <<742, 431>>)
            ELSE IF args.Re <= 200000
            THEN (IF ret.val.staggered THEN <<273, 635>> ELSE <<211, 651>>)
            ELSE (IF ret.val.staggered THEN <<124, 700>> ELSE <<116, 700>>)

C16_witness ==
    /\ InESDU73031 /\ args.Re = 200000 /\ ~ret.val.staggered
    /\ ret.val.a = 211 /\ ret.val.m = 651

\* C17: in a value returned by Nu_ESDU_73031, tube_rows = 10 makes the row
\* factor F2 exactly 1, an omitted Pr_wall makes the property factor F1
\* exactly 1, and angle = 90 makes F3 exactly 1; with all three the result
\* is a*Re^m*Pr^0.34 and no collaborator is consulted.
C17_ESDU_factors_disabled ==
    InESDU73031 =>
        /\ args.tube_rows = PyIntNum(10) => ret.val.F2 = One
        /\ ~args.Pr_wall.given => (ret.val.F1 = Unit /\ spl = <<>>)
        /\ args.angle = 90 => ret.val.F3 = One
        /\ ret.val.Re = args.Re /\ ret.val.Pr = args.Pr

C17_witness ==
    /\ InESDU73031 /\ args.tube_rows = PyIntNum(10) /\ ~args.Pr_wall.given
    /\ args.angle = 90 /\ args.Re = 301
    /\ ret.val.F1 = Unit /\ ret.val.F2 = One /\ ret.val.F3 = One

\* the wall-property correction in the returned product
WallCorrection == IF fn = "Nu_ESDU_73031" THEN ret.val.F1 ELSE ret.val.wall

\* C18 as stated: in a value returned by Nu_Zukauskas_Bejan or Nu_ESDU_73031
\* the wall-property correction is, when Pr_wall is given, the value
\* obtained from one consultation of wall_factor with (Pr, Pr_wall); when
\* Pr_wall is not given it is 1.0 and wall_factor is not consulted.
C18_as_stated ==
    (InBejan \/ InESDU73031) =>
        IF args.Pr_wall.given
        THEN /\ Len(spl) = 1
             /\ spl[1].obj = "wall_factor"
             /\ spl[1].x = args.Pr /\ spl[1].y = args.Pr_wall.v
             /\ WallCorrection = spl[1].val
        ELSE WallCorrection = Unit /\ spl = <<>>

\* C18 (amended): only Nu_ESDU_73031 delegates: with Pr_wall given its
\* correction is the value of one consultation of wall_factor with
\* (Pr, Pr_wall) and both coefficients 0.26.  Nu_Zukauskas_Bejan computes
\* (Pr/Pr_wall)**0.25 in place and never consults wall_factor.  In both,
\* without Pr_wall the correction is 1.0 and nothing is consulted.
C18_wall_correction ==
    /\ InESDU73031 =>
           IF args.Pr_wall.given
           THEN /\ Len(spl) = 1
                /\ spl[1].obj = "wall_factor"
                /\ spl[1].x = args.Pr /\ spl[1].y = args.Pr_wall.v
                /\ ret.val.F1 = spl[1].val
                /\ ret.val.F1 = wall_factor(args.Pr, args.Pr_wall.v, 260, 260,
                                            "WALL_FACTOR_PRANDTL")
           ELSE ret.val.F1 = Unit /\ spl = <<>>
    /\ InBejan =>
           /\ spl = <<>>
           /\ ret.val.wall =
                  IF args.Pr_wall.given
                  THEN Pow(Rat(args.Pr, args.Pr_wall.v), 250) ELSE Unit

C18_witness ==
    /\ InESDU73031 /\ args.Pr_wall = PrWallOf(6500) /\ Len(spl) = 1
    /\ spl[1].obj = "wall_factor" /\ ret.val.F1 = spl[1].val

\* the pitch ratios of Nu_HEDH_tube_bank are computed without error
HEDHGeometry ==
    /\ fn = "Nu_HEDH_tube_bank"
    /\ args.pitch_parallel # 0 /\ args.pitch_normal # 0 /\ args.Do # 0

\* C19: with its pitch ratios computed, Nu_HEDH_tube_bank returns a value
\* with row correction fn = 1.0 when tube_rows >= 10, and ends in NameError
\* (the name n is not defined) when tube_rows < 10.
C19_HEDH_row_correction ==
    HEDHGeometry =>
        IF args.tube_rows.h >= 2 * 10
        THEN ret.kind = "value" /\ ret.val.fn = One
        ELSE ret = Raise("NameError")

C19_witness ==
    /\ HEDHGeometry /\ args.tube_rows = PyIntNum(8)
    /\ ret = Raise("NameError")

\* C20: when baffle_leakage_Bell returns a value, the surface was consulted
\* once at the split fraction y = Ssb/(Ssb + Stb) and at x = (Ssb + Stb)/Sm
\* itself if x is below 0.743614, at 0.743614 otherwise; so for one y every
\* x >= 0.743614 is looked up at the point of x = 0.743614.
C20_leakage_x_clamp ==
    (InLeakage /\ ret.kind = "value") =>
        /\ Len(spl) = 1
        /\ spl[1].obj = "Bell_baffle_leakage_obj"
        /\ spl[1].y = Rat(args.Ssb, args.Ssb + args.Stb)
        /\ spl[1].x =
               IF RatLT(Rat(args.Ssb + args.Stb, args.Sm), Rat(743614, 1000000))
               THEN Rat(args.Ssb + args.Stb, args.Sm)
               ELSE Rat(743614, 1000000)

C20_witness ==
    /\ InLeakage /\ args.Ssb = 1 /\ args.Stb = 3 /\ args.Sm = 1
    /\ ret.kind = "value" /\ Len(spl) = 1
    /\ spl[1].x = Rat(743614, 1000000) /\ spl[1].y = Rat(1, 4)

\* C21: when bundle_bypassing_Bell returns a value, one surface was
\* consulted: the laminar one if laminar is true and the turbulent one
\* otherwise, at z = seal_strips/crossflow_rows and at the fraction itself
\* if it is at most 0.69532, at 0.69532 otherwise; so every fraction
\* >= 0.69532 is looked up at the point of 0.69532.
C21_bypass_clamp_and_regime ==
    (InBypass /\ ret.kind = "value") =>
        /\ Len(spl) = 1
        /\ spl[1].obj = IF args.laminar THEN "Bell_bundle_bypass_low_obj"
                        ELSE "Bell_bundle_bypass_high_obj"
        /\ spl[1].y = Rat(args.seal_strips, args.crossflow_rows)
        /\ spl[1].x =
               IF RatGT(args.bypass_area_fraction, Rat(69532, 100000))
               THEN Rat(69532, 100000) ELSE args.bypass_area_fraction

C21_witness ==
    /\ InBypass /\ args.bypass_area_fraction = Rat(1, 1) /\ args.laminar
    /\ args.seal_strips = 1 /\ args.crossflow_rows = 5
    /\ ret.kind = "value" /\ Len(spl) = 1
    /\ spl[1].x = Rat(69532, 100000)
    /\ spl[1].obj = "Bell_bundle_bypass_low_obj"

IndP_Zukauskas == fn = "dP_Zukauskas" /\ ret.kind = "value"

\* C24: a value returned by dP_Zukauskas comes from the inline friction
\* surface at (Re, SL/D) and the inline correction surface when
\* ST/D = SL/D, from the staggered friction surface at (Re, ST/D) and the
\* staggered correction surface at (ST/SL, Re) when the ratios differ by
\* any amount, and is the product n * correction * friction * rho/2 *
\* Vmax^2 of the two values read.
C24_dP_Zukauskas_branches ==
    IndP_Zukauskas =>
        /\ Len(spl) = 2
        /\ IF args.ST = args.SL
           THEN /\ spl[1].obj = "dP_inline_f"
                /\ spl[1].x = args.Re /\ spl[1].y = Rat(args.SL, args.D)
                /\ spl[2].obj = "dP_inline_correction"
                /\ spl[2].y = args.Re
           ELSE /\ spl[1].obj = "dP_staggered_f"
                /\ spl[1].x = args.Re /\ spl[1].y = Rat(args.ST, args.D)
                /\ spl[2].obj = "dP_staggered_correction"
                /\ spl[2].x = Rat(args.ST, args.SL) /\ spl[2].y = args.Re
        /\ ret.val = [n |-> args.n, x |-> spl[2].val, f |-> spl[1].val,
                      rho |-> args.rho, Vmax |-> args.Vmax]

C24_witness ==
    /\ IndP_Zukauskas /\ args.ST = 313 /\ args.SL = 320 /\ Len(spl) = 2
    /\ spl[1].obj = "dP_staggered_f" /\ spl[2].obj = "dP_staggered_correction"

\* C28: in a call of dP_Zukauskas with ST/D = SL/D (and D # 0) the
\* parameter given to the inline correction surface is exactly 1 whatever
\* the pitch, unless ST = SL = D, where the call ends in ZeroDivisionError
\* and consults nothing.
C28_inline_parameter_one ==
    (fn = "dP_Zukauskas" /\ args.D # 0 /\ args.ST = args.SL) =>
        IF args.ST = args.D
        THEN ret = Raise("ZeroDivisionError") /\ spl = <<>>
        ELSE /\ ret.kind = "value" /\ Len(spl) = 2
             /\ spl[2].obj = "dP_inline_correction"
             /\ spl[2].x = Rat(1, 1)

C28_witness ==
    /\ IndP_Zukauskas /\ args.ST = 313 /\ args.SL = 313 /\ args.D = 200
    /\ Len(spl) = 2 /\ spl[2].obj = "dP_inline_correction"
    /\ spl[2].x = Rat(1, 1)

IndP_Kern == fn = "dP_Kern" /\ ret.kind = "value"

\* C25 as stated: a value returned by dP_Kern is divided by
\* (mu/mu_w)^0.14 exactly when mu_w is supplied and is the uncorrected
\* value when mu_w is omitted; mu_w = mu gives the value of omitting it.
C25_as_stated ==
    IndP_Kern =>
        /\ ~args.mu_w.given => ret.val.corr = Unit
        /\ args.mu_w.given =>
               ret.val.corr = IF args.mu_w.v = args.mu THEN Unit
                              ELSE Pow(Rat(args.mu, args.mu_w.v), 140)

\* C27: baffle_leakage_Bell returns a value exactly when Sm # 0,
\* Ssb + Stb # 0 and 0 <= Ssb/(Ssb + Stb) <= 1; with Sm = 0 or
\* Ssb + Stb = 0 it ends in ZeroDivisionError, also when the split fraction
\* is outside [0, 1], since x = (Ssb + Stb)/Sm is computed and clamped
\* before the fraction is validated.
C27_leakage_value_domain ==
    InLeakage =>
        /\ ret.kind = "value" <=>
               (args.Sm # 0 /\ args.Ssb + args.Stb # 0 /\ ~SplitOutside)
        /\ (args.Sm = 0 \/ args.Ssb + args.Stb = 0) =>
               (ret = Raise("ZeroDivisionError") /\ spl = <<>>)

C27_witness ==
    /\ InLeakage /\ args.Sm = 0 /\ args.Ssb = -1 /\ args.Stb = 3
    /\ ret = Raise("ZeroDivisionError")

\* C29: the row correction Cn in a value returned by Nu_Zukauskas_Bejan is
\* the Zukauskas factor of max(1, trunc(tube_rows)) for the classification
\* and the Re of the call: the low-Re staggered table for a staggered bank
\* at Re < 1000, the high-Re staggered table at Re >= 1000, the inline
\* table for an aligned bank, and 1 for every tube_rows >= 20.
C29_Bejan_row_correction ==
    InBejan =>
        /\ ret.val.staggered =
               IsStaggered(args.pitch_normal, args.pitch_parallel)
        /\ ret.val.Cn =
               IF PyInt(args.tube_rows) >= 20 THEN One
               ELSE IF ~ret.val.staggered
               THEN Zukauskas_Czs_inline[Max(1, PyInt(args.tube_rows))]
               ELSE IF args.Re < 1000
               THEN Zukauskas_Czs_low_Re_staggered[Max(1, PyInt(args.tube_rows))]
               ELSE Zukauskas_Czs_high_Re_staggered[Max(1, PyInt(args.tube_rows))]

C29_witness ==
    /\ InBejan /\ ret.val.staggered /\ args.Re = 700
    /\ args.tube_rows = PyIntNum(8) /\ ret.val.Cn = 9785

\* C30: every factor returned by Zukauskas_tube_row_correction and by
\* ESDU_tube_row_correction (method Hewitt) is above 0 and at most 1, and
\* is below 1 whenever max(1, trunc(tube_rows)) is below 20 (Zukauskas) or
\* below 10 (ESDU).
C30_row_factor_range ==
    ((InZukauskas \/ InESDUHewitt) /\ ret.kind = "value") =>
        /\ ret.val > 0 /\ ret.val <= One
        /\ (InZukauskas /\ Max(1, PyInt(args.tube_rows)) < 20) =>
               ret.val < One
        /\ (~InZukauskas /\ Max(1, PyInt(args.tube_rows)) < 10) =>
               ret.val < One

C30_witness ==
    /\ InESDUHewitt /\ args.tube_rows = PyIntNum(9) /\ ~args.staggered
    /\ ret = Value(9902)

\* sample p is at most sample q
SampleLE(p, q) == p[1] < q[1] \/ (p[1] = q[1] /\ p[2] <= q[2])

NonDecreasing(s) == \A i \in 1..(Len(s) - 1) : SampleLE(s[i], s[i + 1])

\* the tables interpolator o was built from, as sample sequences
AxesOf(o) ==
    [k \in DOMAIN ModuleNow(mod).interpolators[o].axes |->
        AxisSamples(ModuleNow(mod).interpolators[o].axes[k])]

\* C26 as stated: the samples of every table an interpolator is built from
\* are in non-decreasing order, the Grimison staggered ST and SL coordinate
\* arrays included.
C26_as_stated ==
    \A o \in DOMAIN ModuleNow(mod).interpolators :
        \A k \in DOMAIN AxesOf(o) : NonDecreasing(AxesOf(o)[k])

\* C26 (amended): every grid axis (the tables handed to UnivariateSpline
\* and RectBivariateSpline) is in non-decreasing order.  The Grimison
\* staggered arrays, handed to interp2d, are the coordinates of scattered
\* points ordered by ST and, for equal ST, by SL: the ST array is
\* non-decreasing, the SL array is not (it starts again at each new ST).
C26_grid_axes_sorted ==
    \A o \in DOMAIN ModuleNow(mod).interpolators :
        IF ModuleNow(mod).interpolators[o].ctor = "interp2d"
        THEN LET ST == AxesOf(o)[1]
                 SL == AxesOf(o)[2]
             IN  /\ NonDecreasing(ST)
                 /\ ~NonDecreasing(SL)
                 /\ Len(SL) = Len(ST)
                 /\ \A i \in 1..(Len(SL) - 1) :
                        ST[i] # ST[i + 1] \/ SampleLE(SL[i], SL[i + 1])
        ELSE \A k \in DOMAIN AxesOf(o) : NonDecreasing(AxesOf(o)[k])

\* a call that read a surface built from the scattered Grimison points,
\* whose SL coordinate falls from 3 to 1 between the fourth and fifth
C26_witness ==
    /\ fn = "Nu_Grimison_tube_bank" /\ Len(spl) = 2
    /\ spl[1].obj = "Grimson_C1_staggered_interp"
    /\ ModuleNow(mod).interpolators.Grimson_C1_staggered_interp.ctor = "interp2d"
    /\ AxesOf("Grimson_C1_staggered_interp")[2][4] = <<3, 0>>
    /\ AxesOf("Grimson_C1_staggered_interp")[2][5] = <<1, 0>>
    /\ NonDecreasing(AxesOf("Bell_bundle_bypass_high_obj")[1])

AloneResults(f, a) ==
    IF f = "Zukauskas_tube_row_correction"
    THEN {Zukauskas_tube_row_correction(a.tube_rows, a.staggered, a.Re)}
    ELSE IF a.Sm = 0 \/ a.Ssb + a.Stb = 0
    THEN {baffle_leakage_Bell(a.Ssb, a.Stb, a.Sm, 0)}
    ELSE {baffle_leakage_Bell(a.Ssb, a.Stb, a.Sm, Jl) :
             Jl \in Bell_baffle_leakage_obj_values(
                        baffle_leakage_x(a.Ssb, a.Stb, a.Sm),
                        Rat(a.Ssb, a.Ssb + a.Stb))}

\* C23: with callers running calls concurrently and uncoordinated, in
\* every interleaving each finished call has the outcome (value or error)
\* that the same call has when executed alone, and the shared tables and
\* interpolators are left as they were.
C23_interleaving_same_result ==
    /\ ModuleNow(mod).tables = Tables
    /\ \A c \in Callers :
           callers[c].pc = "done" =>
               callers[c].out \in AloneResults(callers[c].f, callers[c].a)

\* caller 1 has finished a table lookup while caller 2 is inside a call
\* of the leakage factor, about to call the shared interpolator
C23_witness ==
    /\ callers[1].pc = "done"
    /\ callers[1].f = "Zukauskas_tube_row_correction"
    /\ callers[1].a.tube_rows = PyIntNum(4) /\ callers[1].a.staggered
    /\ callers[1].a.Re = 10000
    /\ callers[1].out = Value(Zukauskas_Czs_high_Re_staggered[4])
    /\ callers[2].pc = "l1314"
    /\ frames[2]["x"] = Rat(1, 2) /\ frames[2]["y"] = Rat(1, 4)

====
